---- MODULE Spec2Model ----
(***************************************************************************)
(* Model of the off-chain orchestration core of the flash-loan arbitrage   *)
(* bot: quote aggregation, step building and path evaluation               *)
(* (opportunityScanner), the submission path with its nonce counter        *)
(* (mevProtection), the scan scheduler and main() with its restart         *)
(* (bot.js, Flashblocks version), the Odos client behind its rate limiter  *)
(* (aggregatorService) and the settlement contract (BaseAlphaArb.sol).     *)
(*                                                                         *)
(* Amounts are in units of 10^14 wei: the scan amount of 1 ether is 10000  *)
(* units and the gas allowance of 0.0005 ether is 5 units.  The slippage   *)
(* buffer is a rational number of units of 10^-5.                          *)
(***************************************************************************)
EXTENDS Integers, Sequences, FiniteSets, TLC

VARIABLES
    cfg,        \* config: slippageBuffer, contractAddress[network]
    ev,         \* SpecEval: the evaluatePath call under observation
    mode,       \* isFlashblocksEnabled(): "flashblocks" or "polling"
    paths,      \* the candidate paths loaded by main()
    isRunning,  \* bot.js: let isRunning
    scanning,   \* the single-flight guard of the onFlashblock handler
    scanCount,  \* bot.js: let scanCount
    notified,   \* the last notification: what it did and what was in flight
    cyc,        \* the scan/execute cycles in flight, one record per slot
    nonce,      \* mevProtection: let nonce
    chainNonce, \* the wallet's transaction count on chain (latest block)
    txs,        \* the transactions this process has broadcast, in order
    unsynced,   \* a broadcast failed and the counter was not re-fetched since
    hq,         \* SpecQuote: the getBestHopQuote call under observation;
                \* SpecRepeat: the hop in flight and the first run's outcome
    sc,         \* SpecScan: the scanAllPaths call under observation
    rst,        \* SpecRestart: main() and the schedulers it has started
    od,         \* SpecOdos: the Odos limiter and the calls going through it
    arb,        \* SpecArb: the BaseAlphaArb contract and the tokens it touches
    ft          \* SpecTier: the fee-tier search of one venue under observation

vars == <<cfg, ev, mode, paths, isRunning, scanning, scanCount, notified, cyc, nonce,
          chainNonce, txs, unsynced, hq, sc, rst, od, arb, ft>>

(***************************************************************************)
(* Program constants                                                       *)
(***************************************************************************)
DEX_GENERIC == 0
DEX_UNISWAP_V3 == 1
DEX_AERODROME == 2
DEX_PANCAKESWAP_V3 == 3
DEX_UNISWAP_V2 == 4

\* ethers.parseUnits(config.scanAmount || '1', 'ether'), in units of 10^14 wei
InitialAmount == 10000
\* ethers.parseUnits('0.0005', 'ether'), in units of 10^14 wei
GasCostEstimate == 5
\* require(steps.length <= 10, "Too many steps")
MaxSteps == 10
\* config.slippageBuffer || 0.003, in units of 10^-5
DefaultSlippage == 300
\* the denominator of slippageFactor: basis points
SlipScale == 10000
\* quote.fee || 3000 and quote.fee || 2500
DefaultFeeV3 == 3000
DefaultFeePancake == 2500

Null == [k |-> "null"]
Threw == [k |-> "threw"]

(***************************************************************************)
(* Bounds of the model: tokens, the responses each source may give, the    *)
(* configured slippage buffers, the candidate paths.                       *)
(***************************************************************************)
\* the amounts a source may quote: loss after gas, and profit
AmtLo == 10004
AmtHi == 10100
\* slippage buffers in units of 10^-5 (ten to the basis point): 0, 0.00004,
\* 0.00016, 0.003, 0.05, 0.18185
SlipUnit == 10 * SlipScale
Slippages == {0, 4, 16, 300, 5000, 18185}

Reply(k, src, amt, fee, stable) ==
    [k |-> k, src |-> src, amt |-> amt, fee |-> fee, stable |-> stable]

\* What one source can answer: a rejected promise, null, a quote object
\* without toTokenAmount ("missing"), with a non-numeric one ("bad"), or with
\* a numeric one ("num").
Replies(src) ==
    CASE src = "uniswapV2" ->
           { Reply("rejected", src, 0, 0, FALSE), Reply("num", src, 0, 0, FALSE),
             Reply("num", src, AmtHi, 0, FALSE) }
      [] src = "uniswapV3" ->
           { Reply("null", src, 0, 0, FALSE), Reply("num", src, AmtLo, 0, FALSE),
             Reply("num", src, AmtHi, 500, FALSE) }
      [] src = "aerodrome" ->
           { Reply("rejected", src, 0, 0, FALSE), Reply("num", src, AmtLo, 0, FALSE),
             Reply("num", src, AmtHi, 0, TRUE) }
      [] src = "pancakeswapV3" ->
           { Reply("null", src, 0, 0, FALSE), Reply("missing", src, 0, 0, FALSE),
             Reply("num", src, AmtHi, 0, FALSE) }
      [] src = "baseswap" ->
           { Reply("rejected", src, 0, 0, FALSE), Reply("num", src, 0 - 1, 0, FALSE),
             Reply("num", src, AmtLo, 0, FALSE) }
      [] OTHER ->
           { Reply("null", src, 0, 0, FALSE), Reply("bad", src, 0, 0, FALSE),
             Reply("num", src, AmtLo, 0, FALSE), Reply("num", src, AmtHi, 0, FALSE) }

Hop(f, t, d) == [from |-> f, to |-> t, dex |-> d]

\* an 11-hop cycle, every hop hinted to a venue that is not configured, so
\* that only the aggregator is asked
LongPath ==
    [i \in 1..(MaxSteps + 1) |->
        IF i % 2 = 1 /\ i < MaxSteps + 1 THEN Hop("A", "B", "sushi")
        ELSE IF i % 2 = 0 /\ i < MaxSteps THEN Hop("B", "A", "sushi")
        ELSE IF i = MaxSteps THEN Hop("B", "C", "sushi")
        ELSE Hop("C", "A", "sushi")]

Paths ==
    { <<Hop("A", "B", ""), Hop("B", "A", "")>>,
      <<Hop("A", "B", "aerodrome"), Hop("B", "C", "uniswap"), Hop("C", "A", "sushi")>>,
      <<Hop("A", "B", "baseswap"), Hop("C", "A", "pancakeswap")>>,
      <<Hop("A", "B", "uniswapV3")>>,
      LongPath }

(***************************************************************************)
(* Quote Aggregator: getBestHopQuote                                       *)
(***************************************************************************)
AllSources == <<"uniswapV2", "uniswapV3", "aerodrome", "pancakeswapV3", "baseswap", "odos">>

AskedAlways(src, preferredDex) == TRUE
\* the conditions under which a request to the source is pushed
Asked(src, preferredDex) ==
    CASE src = "uniswapV2" -> preferredDex \in {"", "uniswapV2", "uniswap"}
      [] src = "uniswapV3" -> preferredDex \in {"", "uniswapV3", "uniswap"}
      [] src = "aerodrome" -> preferredDex \in {"", "aerodrome"}
      [] src = "pancakeswapV3" -> preferredDex \in {"", "pancakeswap", "pancakeswapV3"}
      [] src = "baseswap" -> preferredDex \in {"", "baseswap"}
      [] OTHER -> TRUE

\* quotePromises, in the order the requests are issued
quotePromises(preferredDex) ==
    SelectSeq(AllSources, LAMBDA s : Asked(s, preferredDex))

\* Array.prototype.reduce without an initial value
RECURSIVE reduceBest(_, _, _)
reduceBest(qs, i, best) ==
    IF i > Len(qs) THEN best
    ELSE reduceBest(qs, i + 1, IF qs[i].amt > best.amt THEN qs[i] ELSE best)

isValidQuoteAny(q) == TRUE
\* .filter(q => BigInt(q.toTokenAmount) > 0n)
isValidQuote(q) == q.amt > 0

\* results: the settled promises, in request order
getBestHopQuote(results) ==
    LET withAmount == SelectSeq(results, LAMBDA r : r.k \in {"num", "bad"})
        unusable == \E i \in 1..Len(withAmount) : withAmount[i].k = "bad"
        validQuotes == SelectSeq(withAmount, isValidQuote)
    IN  IF unusable THEN Threw
        ELSE IF Len(validQuotes) = 0 THEN Null
        ELSE reduceBest(validQuotes, 2, validQuotes[1])

(***************************************************************************)
(* Step Builder: buildSwapStep                                             *)
(***************************************************************************)
\* quote.dexType as the venue clients set it; the aggregator's quotes carry
\* aggregator: 'odos' and no dexType
dexTypeOf(src) ==
    CASE src \in {"uniswapV2", "baseswap"} -> DEX_UNISWAP_V2
      [] src = "uniswapV3" -> DEX_UNISWAP_V3
      [] src = "aerodrome" -> DEX_AERODROME
      [] src = "pancakeswapV3" -> DEX_PANCAKESWAP_V3
      [] OTHER -> 0 - 1

\* quote.router of a V2-style quote
routerOf(src) == IF src = "baseswap" THEN "BASESWAP_ROUTER" ELSE "UNISWAP_V2_ROUTER"

\* what the aggregator's assemble endpoint can answer
Assembled ==
    { Null,
      [k |-> "asm", to |-> "", data |-> "0xcall"],
      [k |-> "asm", to |-> "ODOS_ROUTER", data |-> ""],
      [k |-> "asm", to |-> "ODOS_ROUTER", data |-> "0xcall"] }

\* the buffers, in units of 10^-5 below 1, at which the double
\* (1 - buffer) * 10000 lies below the half it stands for, so that Math.round
\* gives the integer below: all of them are odd multiples of half a basis
\* point, and at every other buffer of the grid Math.round gives the nearest
\* integer of the exact product, halves up
DoubleRoundsDown ==
    {
      18185, 18195, 18385, 18395, 18405, 18595, 18605, 18795, 18805, 18995, 19005, 19195,
      19205, 19395, 19405, 19595, 19605, 19615, 19805, 19815, 20005, 20015, 20205, 20215,
      20405, 20415, 20605, 20615, 20805, 20815, 20825, 21015, 21025, 21215, 21225, 21415,
      21425, 21615, 21625, 21815, 21825, 22015, 22025, 22035, 22225, 22235, 22425, 22435,
      22625, 22635, 22825, 22835, 23025, 23035, 23225, 23235, 23425, 23435, 23445, 23635,
      23645, 23835, 23845, 24035, 24045, 24235, 24245, 24435, 24445, 24635, 24645, 24655,
      24845, 24855, 25035, 25045, 25055, 25235, 25245, 25255, 25435, 25445, 25455, 25635,
      25645, 25655, 25835, 25845, 25855, 25865, 26035, 26045, 26055, 26065, 26235, 26245,
      26255, 26265, 26445, 26455, 26465, 26645, 26655, 26665, 26845, 26855, 26865, 27045,
      27055, 27065, 27075, 27245, 27255, 27265, 27275, 27445, 27455, 27465, 27475, 27655,
      27665, 27675, 27855, 27865, 27875, 28055, 28065, 28075, 28255, 28265, 28275, 28285,
      28455, 28465, 28475, 28485, 28655, 28665, 28675, 28685, 28865, 28875, 28885, 29065,
      29075, 29085, 29265, 29275, 29285, 29465, 29475, 29485, 29665, 29675, 29685, 29695,
      29865, 29875, 29885, 29895, 30075, 30085, 30095, 30275, 30285, 30295, 30475, 30485,
      30495, 30675, 30685, 30695, 30875, 30885, 30895, 30905, 31075, 31085, 31095, 31105,
      31285, 31295, 31305, 31485, 31495, 31505, 31685, 31695, 31705, 31885, 31895, 31905,
      32085, 32095, 32105, 32115, 32285, 32295, 32305, 32315, 32485, 32495, 32505, 32515,
      32695, 32705, 32715, 32895, 32905, 32915, 33095, 33105, 33115, 33295, 33305, 33315,
      33325, 33495, 33505, 33515, 33525, 33695, 33705, 33715, 33725, 33905, 33915, 33925,
      34105, 34115, 34125, 34305, 34315, 34325, 34505, 34515, 34525, 34535, 34705, 34715,
      34725, 34735, 34905, 34915, 34925, 34935, 35115, 35125, 35135, 35315, 35325, 35335,
      35515, 35525, 35535, 35715, 35725, 35735, 35915, 35925, 35935, 35945, 36115, 36125,
      36135, 36145, 36325, 36335, 36345, 36525, 36535, 36545, 36725, 36735, 36745, 36925,
      36935, 36945, 37125, 37135, 37145, 37155, 37325, 37335, 37345, 37355, 37535, 37545,
      37555, 37735, 37745, 37755, 37935, 37945, 37955, 38135, 38145, 38155, 38335, 38345,
      38355, 38365, 38535, 38545, 38555, 38565, 38735, 38745, 38755, 38765, 38945, 38955,
      38965, 39145, 39155, 39165, 39345, 39355, 39365, 39545, 39555, 39565, 39575, 39745,
      39755, 39765, 39775, 39945, 39955, 39965, 39975, 40155, 40165, 40175, 40355, 40365,
      40375, 40555, 40565, 40575, 40755, 40765, 40775, 40785, 40955, 40965, 40975, 40985,
      41155, 41165, 41175, 41185, 41365, 41375, 41385, 41565, 41575, 41585, 41765, 41775,
      41785, 41965, 41975, 41985, 42165, 42175, 42185, 42195, 42365, 42375, 42385, 42395,
      42575, 42585, 42595, 42775, 42785, 42795, 42975, 42985, 42995, 43175, 43185, 43195,
      43375, 43385, 43395, 43405, 43575, 43585, 43595, 43605, 43785, 43795, 43805, 43985,
      43995, 44005, 44185, 44195, 44205, 44385, 44395, 44405, 44585, 44595, 44605, 44615,
      44785, 44795, 44805, 44815, 44985, 44995, 45005, 45015, 45195, 45205, 45215, 45395,
      45405, 45415, 45595, 45605, 45615, 45795, 45805, 45815, 45825, 45995, 46005, 46015,
      46025, 46195, 46205, 46215, 46225, 46405, 46415, 46425, 46605, 46615, 46625, 46805,
      46815, 46825, 47005, 47015, 47025, 47035, 47205, 47215, 47225, 47235, 47405, 47415,
      47425, 47435, 47615, 47625, 47635, 47815, 47825, 47835, 48015, 48025, 48035, 48215,
      48225, 48235, 48415, 48425, 48435, 48445, 48615, 48625, 48635, 48645, 48825, 48835,
      48845, 49025, 49035, 49045, 49225, 49235, 49245, 49425, 49435, 49445, 49625, 49635,
      49645, 49655, 49825, 49835, 49845, 49855, 50055, 50155, 50255, 50355, 50455, 50555,
      50765, 50865, 50965, 51065, 51165, 51265, 51365, 51465, 51565, 51665, 51765, 51865,
      52075, 52175, 52275, 52375, 52475, 52575, 52675, 52775, 52875, 52975, 53075, 53285,
      53385, 53485, 53585, 53685, 53785, 53885, 53985, 54085, 54185, 54285, 54595, 54695,
      54795, 54895, 54995, 55095, 55195, 55295, 55395, 55495, 55595, 55805, 55905, 56005,
      56105, 56205, 56305, 56405, 56505, 56605, 56705, 56805, 57015, 57115, 57215, 57315,
      57415, 57515, 57615, 57715, 57815, 57915, 58015, 58115, 58325, 58425, 58525, 58625,
      58725, 58825, 58925, 59025, 59045, 59125, 59135, 59145, 59225, 59235, 59245, 59325,
      59335, 59345, 59435, 59445, 59455, 59535, 59545, 59555, 59635, 59645, 59655, 59735,
      59745, 59755, 59835, 59845, 59855, 59935, 59945, 59955, 60035, 60045, 60055, 60135,
      60145, 60155, 60235, 60245, 60255, 60335, 60345, 60355, 60435, 60445, 60455, 60535,
      60545, 60555, 60645, 60655, 60745, 60755, 60765, 60845, 60855, 60865, 60945, 60955,
      60965, 61045, 61055, 61065, 61145, 61155, 61165, 61245, 61255, 61265, 61345, 61355,
      61365, 61445, 61455, 61465, 61545, 61555, 61565, 61645, 61655, 61665, 61745, 61755,
      61765, 61845, 61855, 61865, 61955, 61965, 61975, 62055, 62065, 62075, 62155, 62165,
      62175, 62255, 62265, 62275, 62355, 62365, 62375, 62455, 62465, 62475, 62555, 62565,
      62575, 62655, 62665, 62675, 62755, 62765, 62775, 62855, 62865, 62875, 62955, 62965,
      62975, 63055, 63065, 63075, 63165, 63175, 63265, 63275, 63285, 63365, 63375, 63385,
      63465, 63475, 63485, 63565, 63575, 63585, 63665, 63675, 63685, 63765, 63775, 63785,
      63865, 63875, 63885, 63965, 63975, 63985, 64065, 64075, 64085, 64165, 64175, 64185,
      64265, 64275, 64285, 64365, 64375, 64385, 64475, 64485, 64495, 64575, 64585, 64595,
      64675, 64685, 64695, 64775, 64785, 64795, 64875, 64885, 64895, 64975, 64985, 64995,
      65075, 65085, 65095, 65175, 65185, 65195, 65275, 65285, 65295, 65375, 65385, 65395,
      65475, 65485, 65495, 65575, 65585, 65595, 65685, 65695, 65705, 65785, 65795, 65805,
      65885, 65895, 65905, 65985, 65995, 66005, 66085, 66095, 66105, 66185, 66195, 66205,
      66285, 66295, 66305, 66385, 66395, 66405, 66485, 66495, 66505, 66585, 66595, 66605,
      66685, 66695, 66705, 66785, 66795, 66805, 66895, 66905, 66995, 67005, 67015, 67095,
      67105, 67115, 67195, 67205, 67215, 67295, 67305, 67315, 67395, 67405, 67415, 67495,
      67505, 67515, 67595, 67605, 67615, 67695, 67705, 67715, 67795, 67805, 67815, 67895,
      67905, 67915, 67995, 68005, 68015, 68095, 68105, 68115, 68205, 68215, 68225, 68305,
      68315, 68325, 68405, 68415, 68425, 68505, 68515, 68525, 68605, 68615, 68625, 68705,
      68715, 68725, 68805, 68815, 68825, 68905, 68915, 68925, 69005, 69015, 69025, 69105,
      69115, 69125, 69205, 69215, 69225, 69305, 69315, 69325, 69415, 69425, 69515, 69525,
      69535, 69615, 69625, 69635, 69715, 69725, 69735, 69815, 69825, 69835, 69915, 69925,
      69935, 70015, 70025, 70035, 70115, 70125, 70135, 70215, 70225, 70235, 70315, 70325,
      70335, 70415, 70425, 70435, 70515, 70525, 70535, 70615, 70625, 70635, 70725, 70735,
      70745, 70825, 70835, 70845, 70925, 70935, 70945, 71025, 71035, 71045, 71125, 71135,
      71145, 71225, 71235, 71245, 71325, 71335, 71345, 71425, 71435, 71445, 71525, 71535,
      71545, 71625, 71635, 71645, 71725, 71735, 71745, 71825, 71835, 71845, 71935, 71945,
      71955, 72035, 72045, 72055, 72135, 72145, 72155, 72235, 72245, 72255, 72335, 72345,
      72355, 72435, 72445, 72455, 72535, 72545, 72555, 72635, 72645, 72655, 72735, 72745,
      72755, 72835, 72845, 72855, 72935, 72945, 72955, 73035, 73045, 73055, 73145, 73155,
      73245, 73255, 73265, 73345, 73355, 73365, 73445, 73455, 73465, 73545, 73555, 73565,
      73645, 73655, 73665, 73745, 73755, 73765, 73845, 73855, 73865, 73945, 73955, 73965,
      74045, 74055, 74065, 74145, 74155, 74165, 74245, 74255, 74265, 74345, 74355, 74365,
      74455, 74465, 74475, 74555, 74565, 74575, 74655, 74665, 74675, 74755, 74765, 74775,
      74855, 74865, 74875, 74955, 74965, 74975, 75055, 75065, 75075, 75155, 75165, 75175,
      75255, 75265, 75275, 75355, 75365, 75375, 75455, 75465, 75475, 75555, 75565, 75575,
      75665, 75675, 75765, 75775, 75785, 75865, 75875, 75885, 75965, 75975, 75985, 76065,
      76075, 76085, 76165, 76175, 76185, 76265, 76275, 76285, 76365, 76375, 76385, 76465,
      76475, 76485, 76565, 76575, 76585, 76665, 76675, 76685, 76765, 76775, 76785, 76865,
      76875, 76885, 76975, 76985, 76995, 77075, 77085, 77095, 77175, 77185, 77195, 77275,
      77285, 77295, 77375, 77385, 77395, 77475, 77485, 77495, 77575, 77585, 77595, 77675,
      77685, 77695, 77775, 77785, 77795, 77875, 77885, 77895, 77975, 77985, 77995, 78075,
      78085, 78095, 78185, 78195, 78205, 78285, 78295, 78305, 78385, 78395, 78405, 78485,
      78495, 78505, 78585, 78595, 78605, 78685, 78695, 78705, 78785, 78795, 78805, 78885,
      78895, 78905, 78985, 78995, 79005, 79085, 79095, 79105, 79185, 79195, 79205, 79285,
      79295, 79305, 79395, 79405, 79495, 79505, 79515, 79525, 79595, 79605, 79615, 79625,
      79695, 79705, 79715, 79725, 79795, 79805, 79815, 79825, 79895, 79905, 79915, 79925,
      79995, 80005, 80015, 80025, 80095, 80105, 80115, 80125, 80195, 80205, 80215, 80225,
      80295, 80305, 80315, 80325, 80395, 80405, 80415, 80425, 80495, 80505, 80515, 80525,
      80595, 80605, 80615, 80625, 80705, 80715, 80725, 80735, 80805, 80815, 80825, 80835,
      80905, 80915, 80925, 80935, 81005, 81015, 81025, 81035, 81105, 81115, 81125, 81135,
      81205, 81215, 81225, 81235, 81305, 81315, 81325, 81335, 81405, 81415, 81425, 81435,
      81505, 81515, 81525, 81535, 81605, 81615, 81625, 81635, 81705, 81715, 81725, 81735,
      81805, 81815, 81825, 81835, 81915, 81925, 81935, 81945, 82015, 82025, 82035, 82045,
      82115, 82125, 82135, 82145, 82215, 82225, 82235, 82245, 82315, 82325, 82335, 82345,
      82415, 82425, 82435, 82445, 82515, 82525, 82535, 82545, 82615, 82625, 82635, 82645,
      82715, 82725, 82735, 82745, 82815, 82825, 82835, 82845, 82915, 82925, 82935, 82945,
      83015, 83025, 83035, 83045, 83115, 83125, 83135, 83145, 83225, 83235, 83245, 83255,
      83325, 83335, 83345, 83355, 83425, 83435, 83445, 83455, 83525, 83535, 83545, 83555,
      83625, 83635, 83645, 83655, 83725, 83735, 83745, 83755, 83825, 83835, 83845, 83855,
      83925, 83935, 83945, 83955, 84025, 84035, 84045, 84055, 84125, 84135, 84145, 84155,
      84225, 84235, 84245, 84255, 84325, 84335, 84345, 84355, 84435, 84445, 84455, 84465,
      84535, 84545, 84555, 84565, 84635, 84645, 84655, 84665, 84735, 84745, 84755, 84765,
      84835, 84845, 84855, 84865, 84935, 84945, 84955, 84965, 85035, 85045, 85055, 85065,
      85135, 85145, 85155, 85165, 85235, 85245, 85255, 85265, 85335, 85345, 85355, 85365,
      85435, 85445, 85455, 85465, 85535, 85545, 85555, 85565, 85645, 85655, 85665, 85675,
      85745, 85755, 85765, 85775, 85845, 85855, 85865, 85875, 85945, 85955, 85965, 85975,
      86045, 86055, 86065, 86075, 86145, 86155, 86165, 86175, 86245, 86255, 86265, 86275,
      86345, 86355, 86365, 86375, 86445, 86455, 86465, 86475, 86545, 86555, 86565, 86575,
      86645, 86655, 86665, 86675, 86745, 86755, 86765, 86775, 86845, 86855, 86865, 86875,
      86955, 86965, 86975, 86985, 87055, 87065, 87075, 87085, 87155, 87165, 87175, 87185,
      87255, 87265, 87275, 87285, 87355, 87365, 87375, 87385, 87455, 87465, 87475, 87485,
      87555, 87565, 87575, 87585, 87655, 87665, 87675, 87685, 87755, 87765, 87775, 87785,
      87855, 87865, 87875, 87885, 87955, 87965, 87975, 87985, 88055, 88065, 88075, 88085,
      88165, 88175, 88185, 88195, 88265, 88275, 88285, 88295, 88365, 88375, 88385, 88395,
      88465, 88475, 88485, 88495, 88565, 88575, 88585, 88595, 88665, 88675, 88685, 88695,
      88765, 88775, 88785, 88795, 88865, 88875, 88885, 88895, 88965, 88975, 88985, 88995,
      89065, 89075, 89085, 89095, 89165, 89175, 89185, 89195, 89265, 89275, 89285, 89295,
      89365, 89375, 89385, 89395, 89475, 89485, 89495, 89505, 89575, 89585, 89595, 89605,
      89675, 89685, 89695, 89705, 89775, 89785, 89795, 89805, 89875, 89885, 89895, 89905,
      89975, 89985, 89995, 90005, 90075, 90085, 90095, 90105, 90115, 90175, 90185, 90195,
      90205, 90215, 90275, 90285, 90295, 90305, 90315, 90375, 90385, 90395, 90405, 90415,
      90475, 90485, 90495, 90505, 90515, 90575, 90585, 90595, 90605, 90615, 90685, 90695,
      90705, 90715, 90785, 90795, 90805, 90815, 90885, 90895, 90905, 90915, 90985, 90995,
      91005, 91015, 91085, 91095, 91105, 91115, 91185, 91195, 91205, 91215, 91285, 91295,
      91305, 91315, 91325, 91385, 91395, 91405, 91415, 91425, 91485, 91495, 91505, 91515,
      91525, 91585, 91595, 91605, 91615, 91625, 91685, 91695, 91705, 91715, 91725, 91785,
      91795, 91805, 91815, 91825, 91895, 91905, 91915, 91925, 91995, 92005, 92015, 92025,
      92095, 92105, 92115, 92125, 92195, 92205, 92215, 92225, 92295, 92305, 92315, 92325,
      92395, 92405, 92415, 92425, 92495, 92505, 92515, 92525, 92535, 92595, 92605, 92615,
      92625, 92635, 92695, 92705, 92715, 92725, 92735, 92795, 92805, 92815, 92825, 92835,
      92895, 92905, 92915, 92925, 92935, 92995, 93005, 93015, 93025, 93035, 93095, 93105,
      93115, 93125, 93135, 93205, 93215, 93225, 93235, 93305, 93315, 93325, 93335, 93405,
      93415, 93425, 93435, 93505, 93515, 93525, 93535, 93605, 93615, 93625, 93635, 93705,
      93715, 93725, 93735, 93805, 93815, 93825, 93835, 93845, 93905, 93915, 93925, 93935,
      93945, 94005, 94015, 94025, 94035, 94045, 94105, 94115, 94125, 94135, 94145, 94205,
      94215, 94225, 94235, 94245, 94305, 94315, 94325, 94335, 94345, 94415, 94425, 94435,
      94445, 94515, 94525, 94535, 94545, 94615, 94625, 94635, 94645, 94715, 94725, 94735,
      94745, 94815, 94825, 94835, 94845, 94915, 94925, 94935, 94945, 94955, 95015, 95025,
      95035, 95045, 95055, 95115, 95125, 95135, 95145, 95155, 95215, 95225, 95235, 95245,
      95255, 95315, 95325, 95335, 95345, 95355, 95415, 95425, 95435, 95445, 95455, 95515,
      95525, 95535, 95545, 95555, 95615, 95625, 95635, 95645, 95655, 95725, 95735, 95745,
      95755, 95825, 95835, 95845, 95855, 95925, 95935, 95945, 95955, 95965, 96025, 96035,
      96045, 96055, 96065, 96125, 96135, 96145, 96155, 96165, 96225, 96235, 96245, 96255,
      96265, 96325, 96335, 96345, 96355, 96365, 96425, 96435, 96445, 96455, 96465, 96525,
      96535, 96545, 96555, 96565, 96625, 96635, 96645, 96655, 96665, 96725, 96735, 96745,
      96755, 96765, 96825, 96835, 96845, 96855, 96865, 96935, 96945, 96955, 96965, 97035,
      97045, 97055, 97065, 97135, 97145, 97155, 97165, 97235, 97245, 97255, 97265, 97275,
      97335, 97345, 97355, 97365, 97375, 97435, 97445, 97455, 97465, 97475, 97535, 97545,
      97555, 97565, 97575, 97635, 97645, 97655, 97665, 97675, 97735, 97745, 97755, 97765,
      97775, 97835, 97845, 97855, 97865, 97875, 97935, 97945, 97955, 97965, 97975, 98035,
      98045, 98055, 98065, 98075, 98145, 98155, 98165, 98175, 98245, 98255, 98265, 98275,
      98345, 98355, 98365, 98375, 98385, 98445, 98455, 98465, 98475, 98485, 98545, 98555,
      98565, 98575, 98585, 98645, 98655, 98665, 98675, 98685, 98745, 98755, 98765, 98775,
      98785, 98845, 98855, 98865, 98875, 98885, 98945, 98955, 98965, 98975, 98985, 99045,
      99055, 99065, 99075, 99085, 99145, 99155, 99165, 99175, 99185, 99245, 99255, 99265,
      99275, 99285, 99345, 99355, 99365, 99375, 99385, 99455, 99465, 99475, 99485, 99495,
      99555, 99565, 99575, 99585, 99595, 99655, 99665, 99675, 99685, 99695, 99755, 99765,
      99775, 99785, 99795, 99855, 99865, 99875, 99885, 99895, 99955, 99965, 99975, 99985,
      99995 }

\* BigInt(Math.round((1 - (config.slippageBuffer || 0.003)) * 10000)), with the
\* buffer s given in units of 10^-5
slippageFactor(s) ==
    LET buffer == IF s = 0 THEN DefaultSlippage ELSE s
        perBp == SlipUnit \div SlipScale
        halfUp == (SlipUnit - buffer + perBp \div 2) \div perBp
    IN  IF buffer \in DoubleRoundsDown THEN halfUp - 1 ELSE halfUp

\* the object literal buildSwapStep returns
SwapStep(dexType, router, tokenIn, tokenOut, fee, stable, factory, amountOutMin, data) ==
    [k |-> "step", dexType |-> dexType, router |-> router, tokenIn |-> tokenIn,
     tokenOut |-> tokenOut, fee |-> fee, stable |-> stable, factory |-> factory,
     amountOutMin |-> amountOutMin, data |-> data]

buildSwapStep(quote, fromToken, toToken, assembled, slippageBuffer) ==
    LET amountOutMin == (quote.amt * slippageFactor(slippageBuffer)) \div SlipScale
    IN  IF dexTypeOf(quote.src) = DEX_UNISWAP_V2 THEN
            SwapStep(DEX_UNISWAP_V2, routerOf(quote.src), fromToken, toToken, 0, FALSE,
                     "ZeroAddress", amountOutMin, "0x")
        ELSE IF dexTypeOf(quote.src) = DEX_UNISWAP_V3 THEN
            SwapStep(DEX_UNISWAP_V3, "UNISWAP_V3_SWAP_ROUTER_02", fromToken, toToken,
                     IF quote.fee = 0 THEN DefaultFeeV3 ELSE quote.fee, FALSE,
                     "ZeroAddress", amountOutMin, "0x")
        ELSE IF dexTypeOf(quote.src) = DEX_AERODROME THEN
            SwapStep(DEX_AERODROME, "AERODROME_ROUTER", fromToken, toToken, 0, quote.stable,
                     "AERODROME_DEFAULT_FACTORY", amountOutMin, "0x")
        ELSE IF dexTypeOf(quote.src) = DEX_PANCAKESWAP_V3 THEN
            SwapStep(DEX_PANCAKESWAP_V3, "PANCAKESWAP_V3_SMART_ROUTER", fromToken, toToken,
                     IF quote.fee = 0 THEN DefaultFeePancake ELSE quote.fee, FALSE,
                     "ZeroAddress", amountOutMin, "0x")
        ELSE IF quote.src = "odos" THEN
            IF assembled.k = "null" \/ assembled.to = "" \/ assembled.data = "" THEN Null
            ELSE SwapStep(DEX_GENERIC, assembled.to, fromToken, toToken, 0, FALSE,
                          "ZeroAddress", amountOutMin, assembled.data)
        ELSE Null

(***************************************************************************)
(* The settlement contract's argument checks (executeArb), which the       *)
(* non-mutating simulation runs                                            *)
(***************************************************************************)
executeArbChecksUnconnected(asset, steps) ==
    /\ Len(steps) > 0
    /\ Len(steps) <= MaxSteps
    /\ steps[1].tokenIn = asset
    /\ steps[Len(steps)].tokenOut = asset
    /\ \A i \in 1..Len(steps) :
          steps[i].tokenIn # "ZeroAddress" /\ steps[i].tokenOut # "ZeroAddress"

executeArbChecks(asset, steps) ==
    /\ Len(steps) > 0
    /\ Len(steps) <= MaxSteps
    /\ steps[1].tokenIn = asset
    /\ steps[Len(steps)].tokenOut = asset
    /\ \A i \in 1..Len(steps) :
          /\ steps[i].tokenIn # "ZeroAddress"
          /\ steps[i].tokenOut # "ZeroAddress"
          /\ i > 1 => steps[i].tokenIn = steps[i - 1].tokenOut

\* the preview of the call: it fails whenever the contract would revert, for
\* the argument checks or (chainOk false) for anything that depends on chain
\* state: whitelist, pause, swap outputs, repayment
simulateTransaction(asset, steps, chainOk) ==
    executeArbChecks(asset, steps) /\ chainOk

(***************************************************************************)
(* Path Evaluator: evaluatePath, one step function per suspension point    *)
(***************************************************************************)
\* the configured profit threshold of the profitability predicate
MinProfit == 0

calculateNetProfit(finalAmount, borrowedAmount, gasCostEstimate) ==
    finalAmount - borrowedAmount - gasCostEstimate

isProfitable(netProfit) == netProfit > MinProfit

Opportunity(netProfit, finalAmount, asset, swapSteps) ==
    [k |-> "opp", netProfit |-> netProfit, initialAmount |-> InitialAmount,
     finalAmount |-> finalAmount, asset |-> asset, swapSteps |-> swapSteps]

\* the state of one evaluatePath call before its first hop
evalStart(pathHops) ==
    [pc |-> "hop", pathHops |-> pathHops, i |-> 1, currentAmount |-> InitialAmount,
     swapSteps |-> <<>>, ret |-> Null, netProfit |-> 0,
     quoteReqs |-> <<>>, asmReqs |-> 0, simCalls |-> 0, simOk |-> FALSE,
     lastQuote |-> Null, lastNonPositive |-> FALSE, outs |-> <<>>, failedHop |-> 0]

evalReturn(e, value) == [e EXCEPT !.pc = "done", !.ret = value]

isNoStepNever(step) == FALSE
\* if (!step) return null
isNoStep(step) == step.k = "null"

nextAmountStale(currentAmount, quote) == currentAmount
\* currentAmount = BigInt(quote.toTokenAmount)
nextAmount(currentAmount, quote) == quote.amt

\* the call of getBestHopQuote for hop i, up to its await of the replies: the
\* requests are issued with the current amount
evalRequest(e) ==
    [e EXCEPT !.pc = "quote",
              !.quoteReqs = Append(@, [amountIn |-> e.currentAmount,
                                       sources |-> quotePromises(e.pathHops[e.i].dex)])]

\* getBestHopQuote has settled with results: if (!quote) return null; else
\* buildSwapStep is called, which calls getOdosAssemble for an aggregator
\* quote.  outs and failedHop record the outputs of the quotes chosen so far
\* and the hop that gave no quote or step
evalQuoted(e, results) ==
    LET quote == getBestHopQuote(results)
        e1 == [e EXCEPT !.lastQuote = quote,
                        !.lastNonPositive =
                            \E j \in 1..Len(results) :
                                results[j].k = "num" /\ results[j].amt <= 0]
        failed == [e1 EXCEPT !.failedHop = e.i]
    IN  IF quote.k = "threw" THEN evalReturn(failed, Threw)
        ELSE IF quote.k = "null" THEN evalReturn(failed, Null)
        ELSE [e1 EXCEPT !.pc = "build",
                        !.asmReqs = IF quote.src = "odos" THEN @ + 1 ELSE @,
                        !.outs = Append(@, quote.amt)]

simulationNeverRuns(contractAddr) == FALSE
\* whether the simulation is run: if (contractAddr)
simulationRuns(contractAddr) == contractAddr

settleBranchAnyProfit(profitable, contractAddr) ==
    IF simulationRuns(contractAddr) THEN "simulate" ELSE "accept"
\* if (await isProfitable(...)) { if (contractAddr) {...} return {...} } return null
settleBranch(profitable, contractAddr) ==
    IF profitable
    THEN IF simulationRuns(contractAddr) THEN "simulate" ELSE "accept"
    ELSE "reject"

\* if (!simSuccess) return null
afterSimulation(simSuccess) == IF simSuccess THEN "accept" ELSE "reject"

finalAmountBorrowed(currentAmount) == InitialAmount
\* const finalAmount = currentAmount
finalAmountOf(currentAmount) == currentAmount

\* after the loop: net profit, and the call of isProfitable up to its await
evalProfit(e) ==
    [e EXCEPT !.pc = "profit",
              !.netProfit = calculateNetProfit(finalAmountOf(e.currentAmount),
                                               InitialAmount, GasCostEstimate)]

\* the Opportunity of a run whose loop has ended
opportunityOf(e) ==
    Opportunity(e.netProfit, finalAmountOf(e.currentAmount), e.pathHops[1].from,
                e.swapSteps)

\* buildSwapStep has settled: if (!step) return null; else the step is pushed
\* and the loop goes on to the next getBestHopQuote or, after the last hop,
\* to isProfitable
evalBuilt(e, assembled, slippageBuffer) ==
    LET hop == e.pathHops[e.i]
        step == buildSwapStep(e.lastQuote, hop.from, hop.to, assembled, slippageBuffer)
        e1 == [e EXCEPT !.swapSteps = Append(@, step),
                        !.currentAmount = nextAmount(e.currentAmount, e.lastQuote),
                        !.i = @ + 1]
    IN  IF isNoStep(step) THEN evalReturn([e EXCEPT !.failedHop = e.i], Null)
        ELSE IF e.i = Len(e.pathHops) THEN evalProfit(e1)
        ELSE evalRequest(e1)

\* isProfitable has settled: return null, return the Opportunity, or call
\* simulateTransaction
evalProfitable(e, contractAddr) ==
    LET branch == settleBranch(isProfitable(e.netProfit), contractAddr)
    IN  IF branch = "simulate" THEN [e EXCEPT !.pc = "sim", !.simCalls = @ + 1]
        ELSE IF branch = "accept" THEN evalReturn(e, opportunityOf(e))
        ELSE evalReturn(e, Null)

\* simulateTransaction has settled
evalSimulated(e, chainOk) ==
    LET simSuccess == simulateTransaction(e.pathHops[1].from, e.swapSteps, chainOk)
        e1 == [e EXCEPT !.simOk = simSuccess]
    IN  IF afterSimulation(simSuccess) = "accept"
        THEN evalReturn(e1, opportunityOf(e))
        ELSE evalReturn(e1, Null)

\* the replies of the sources that are asked, in request order; rich selects
\* the full reply sets, otherwise every source either fails or quotes AmtHi
Unasked == Reply("unasked", "", 0, 0, FALSE)
FewReplies(src) ==
    { IF src \in {"uniswapV3", "pancakeswapV3", "odos"}
        THEN Reply("null", src, 0, 0, FALSE) ELSE Reply("rejected", src, 0, 0, FALSE),
      Reply("num", src, AmtHi, 0, FALSE) }
RepliesIf(src, preferredDex, rich) ==
    IF ~Asked(src, preferredDex) THEN {Unasked}
    ELSE IF rich THEN Replies(src) ELSE FewReplies(src)
settled(r1, r2, r3, r4, r5, r6) ==
    SelectSeq(<<r1, r2, r3, r4, r5, r6>>, LAMBDA r : r.k # "unasked")

\* the evaluation records after the replies of hop i have arrived
quotedSuccessors(e, rich) ==
    LET d == e.pathHops[e.i].dex IN
    { evalQuoted(e, settled(r1, r2, r3, r4, r5, r6)) :
        r1 \in RepliesIf("uniswapV2", d, rich), r2 \in RepliesIf("uniswapV3", d, rich),
        r3 \in RepliesIf("aerodrome", d, rich), r4 \in RepliesIf("pancakeswapV3", d, rich),
        r5 \in RepliesIf("baseswap", d, rich), r6 \in RepliesIf("odos", d, rich) }

\* the evaluation records after buildSwapStep has settled
builtSuccessors(e, slippageBuffer) ==
    { evalBuilt(e, assembled, slippageBuffer) : assembled \in Assembled }

(***************************************************************************)
(* Submission (mevProtection) and scheduler (bot.js) state                 *)
(***************************************************************************)
\* let nonce = null
NullNonce == 0 - 1
\* config.maxGasPriceGwei || 0.1, in units of 0.01 gwei
MaxGasWei == 10
\* tx.gasLimit = 800000n when estimation fails
DefaultGasLimit == 800000
\* the gas estimate of the provider, and (gasEstimate * 130n) / 100n
GasEstimate == 500000
bufferedGas(gasEstimate) == (gasEstimate * 130) \div 100

\* bounds
MaxCycles == 2
MaxScans == 3
GasPrices == {MaxGasWei, MaxGasWei + 1}
MainPaths ==
    { <<Hop("A", "B", ""), Hop("B", "A", "sushi")>>,
      <<Hop("A", "B", "baseswap"), Hop("C", "A", "pancakeswap")>>,
      <<Hop("A", "B", "uniswapV3")>>,
      LongPath }

Slots == 1..MaxCycles

idleCycle ==
    [pc |-> "idle", e |-> Null, opp |-> Null, txNonce |-> NullNonce, txi |-> 0,
     gasLimit |-> 0, result |-> "none", gasExceeded |-> FALSE, sent |-> FALSE,
     nonceBefore |-> NullNonce, attempts |-> 0]

\* the step-sequence invariants of the data model
StepInvariants(asset, steps) ==
    /\ Len(steps) <= MaxSteps
    /\ Len(steps) > 0
    /\ steps[1].tokenIn = asset
    /\ steps[Len(steps)].tokenOut = asset
    /\ \A i \in 2..Len(steps) : steps[i].tokenIn = steps[i - 1].tokenOut

\* the cycles in flight: a handler or a loop iteration that has not finished
InFlight == {c \in Slots : cyc[c].pc # "idle"}

noNotification == [outcome |-> "none", inFlight |-> 0, started |-> 0]

InitBot ==
    /\ mode \in {"flashblocks", "polling"}
    /\ \E p \in MainPaths : paths = <<p>>
    /\ isRunning = FALSE
    /\ scanning = FALSE
    /\ scanCount = 0
    /\ notified = noNotification
    /\ cyc = [c \in Slots |-> idleCycle]
    /\ nonce = NullNonce
    /\ chainNonce = 0
    /\ txs = <<>>
    /\ unsynced = FALSE

\* startScanning up to the registration of the handler or the first loop test
StartScanning ==
    /\ ~isRunning
    /\ isRunning' = TRUE
    /\ UNCHANGED <<ft, rst, od, arb, hq, sc, cfg, ev, mode, paths, scanning, scanCount, notified, cyc, nonce,
                   chainNonce, txs, unsynced>>

guardIgnoresFlag(running, busy) == running
\* if (!isRunning || scanning) return;
guardPasses(running, busy) == running /\ ~busy

\* scanAllPaths calls evaluatePath, which runs to the await of its first
\* getBestHopQuote
beginScan(c) == [idleCycle EXCEPT !.pc = "scan", !.e = evalRequest(evalStart(paths[1]))]

\* a Flashblock notification: the handler runs up to its first await
Notify ==
    /\ mode = "flashblocks"
    /\ isRunning
    /\ guardPasses(isRunning, scanning) =>
          scanCount < MaxScans /\ \E c \in Slots : cyc[c].pc = "idle"
    /\ IF guardPasses(isRunning, scanning)
       THEN LET c == CHOOSE x \in Slots :
                        cyc[x].pc = "idle" /\ \A y \in Slots : cyc[y].pc = "idle" => x <= y
            IN  /\ scanning' = TRUE
                /\ scanCount' = scanCount + 1
                /\ cyc' = [cyc EXCEPT ![c] = beginScan(c)]
                /\ notified' = [outcome |-> "started",
                                 inFlight |-> Cardinality(InFlight),
                                 started |-> scanCount' - scanCount]
       ELSE /\ notified' = [outcome |-> "ignored",
                            inFlight |-> Cardinality(InFlight),
                            started |-> 0]
            /\ UNCHANGED <<scanning, scanCount, cyc>>
    /\ UNCHANGED <<ft, rst, od, arb, hq, sc, cfg, ev, mode, paths, isRunning, nonce, chainNonce, txs, unsynced>>

\* one iteration of the polling loop, up to the await of scanAllPaths
PollTick ==
    /\ mode = "polling"
    /\ isRunning
    /\ cyc[1].pc = "idle"
    /\ scanCount < MaxScans
    /\ scanCount' = scanCount + 1
    /\ cyc' = [cyc EXCEPT ![1] = beginScan(1)]
    /\ UNCHANGED <<ft, rst, od, arb, hq, sc, cfg, ev, mode, paths, isRunning, scanning, notified, nonce,
                   chainNonce, txs, unsynced>>

scanResyncsNonce(counter, latest) == latest
\* the scanner (quotes, step building, path evaluation, simulation) has no
\* access to the nonce counter of the submission module: the counter after
\* a step of the scan is the counter before it
scanKeepsNonce(counter, latest) == counter

\* scanAllPaths, evaluatePath: the replies of the hop's quote requests arrive
ScanQuoted(c) ==
    /\ cyc[c].pc = "scan"
    /\ cyc[c].e.pc = "quote"
    /\ \E e2 \in quotedSuccessors(cyc[c].e, FALSE) :
          cyc' = [cyc EXCEPT ![c].e = e2]
    /\ nonce' = scanKeepsNonce(nonce, chainNonce)
    /\ UNCHANGED <<ft, rst, od, arb, hq, sc, cfg, ev, mode, paths, isRunning, scanning, scanCount, notified,
                   chainNonce, txs, unsynced>>

\* scanAllPaths, evaluatePath: buildSwapStep settles
ScanBuilt(c) ==
    /\ cyc[c].pc = "scan"
    /\ cyc[c].e.pc = "build"
    /\ \E e2 \in builtSuccessors(cyc[c].e, cfg.slippageBuffer) :
          cyc' = [cyc EXCEPT ![c].e = e2]
    /\ UNCHANGED <<ft, rst, od, arb, hq, sc, cfg, ev, mode, paths, isRunning, scanning, scanCount, notified,
                   nonce, chainNonce, txs, unsynced>>

\* scanAllPaths, evaluatePath: isProfitable settles
ScanProfitable(c) ==
    /\ cyc[c].pc = "scan"
    /\ cyc[c].e.pc = "profit"
    /\ cyc' = [cyc EXCEPT ![c].e = evalProfitable(@, cfg.contractAddr)]
    /\ UNCHANGED <<ft, rst, od, arb, hq, sc, cfg, ev, mode, paths, isRunning, scanning, scanCount, notified,
                   nonce, chainNonce, txs, unsynced>>

\* scanAllPaths, evaluatePath: simulateTransaction settles
ScanSimulated(c) ==
    /\ cyc[c].pc = "scan"
    /\ cyc[c].e.pc = "sim"
    /\ \E chainOk \in BOOLEAN :
          cyc' = [cyc EXCEPT ![c].e = evalSimulated(@, chainOk)]
    /\ UNCHANGED <<ft, rst, od, arb, hq, sc, cfg, ev, mode, paths, isRunning, scanning, scanCount, notified,
                   nonce, chainNonce, txs, unsynced>>

\* the result set of scanAllPaths: the fulfilled, non-null evaluations
opportunities(e) == IF e.ret.k = "opp" THEN <<e.ret>> ELSE <<>>

\* the scheduler picks opportunities[0]; handleOpportunity up to its await of
\* contract.executeArb.populateTransaction
Handle(c) ==
    /\ cyc[c].pc = "scan"
    /\ cyc[c].e.pc = "done"
    /\ LET found == opportunities(cyc[c].e) IN
         IF Len(found) = 0
         THEN cyc' = [cyc EXCEPT ![c].pc = "end", ![c].e = Null]
         ELSE IF ~cfg.contractAddr
         THEN cyc' = [cyc EXCEPT ![c].pc = "end", ![c].e = Null, ![c].result = "null"]
         ELSE cyc' = [cyc EXCEPT ![c].pc = "populate", ![c].e = Null,
                                 ![c].opp = found[1]]
    /\ UNCHANGED <<ft, rst, od, arb, hq, sc, cfg, ev, mode, paths, isRunning, scanning, scanCount, notified,
                   nonce, chainNonce, txs, unsynced>>

\* populateTransaction settles: the transaction and the call of estimateGas,
\* or the catch of handleOpportunity
HandlePopulated(c) ==
    /\ cyc[c].pc = "populate"
    /\ \/ cyc' = [cyc EXCEPT ![c].pc = "end", ![c].result = "failure"]
       \/ cyc' = [cyc EXCEPT ![c].pc = "estimate"]
    /\ UNCHANGED <<ft, rst, od, arb, hq, sc, cfg, ev, mode, paths, isRunning, scanning, scanCount, notified,
                   nonce, chainNonce, txs, unsynced>>

\* estimateGas settles: tx.gasLimit is the buffered estimate or the default;
\* sendAndConfirm calls sendPrivateTransaction, which runs to its await of
\* getFeeData
HandleEstimated(c) ==
    /\ cyc[c].pc = "estimate"
    /\ \E gasLimit \in {bufferedGas(GasEstimate), DefaultGasLimit} :
          cyc' = [cyc EXCEPT ![c].pc = "fee", ![c].gasLimit = gasLimit,
                             ![c].nonceBefore = nonce]
    /\ UNCHANGED <<ft, rst, od, arb, hq, sc, cfg, ev, mode, paths, isRunning, scanning, scanCount, notified,
                   nonce, chainNonce, txs, unsynced>>

afterFailureRetries(reason) == IF reason = "reverted" THEN "fee" ELSE "end"
\* sendPrivateTransaction and sendAndConfirm return null, handleOpportunity
\* returns { success: false, ... }: the next step of the cycle after a failure
afterFailure(reason) == "end"

gasNeverExceeds(currentGas, maxGasWei) == FALSE
\* if (currentGas > maxGasWei)
gasExceeds(currentGas, maxGasWei) == currentGas > maxGasWei

\* sendPrivateTransaction: getFeeData and the gas ceiling
FeeData(c) ==
    /\ cyc[c].pc = "fee"
    /\ \/ \* getFeeData throws: catch
          cyc' = [cyc EXCEPT ![c].pc = "reset"]
       \/ \E currentGas \in GasPrices :
            IF gasExceeds(currentGas, MaxGasWei)
            THEN cyc' = [cyc EXCEPT ![c].pc = afterFailure("gas"),
                                    ![c].result = "failure",
                                    ![c].gasExceeded = currentGas > MaxGasWei]
            ELSE cyc' = [cyc EXCEPT ![c].pc = "nonce",
                                    ![c].gasExceeded = currentGas > MaxGasWei]
    /\ UNCHANGED <<ft, rst, od, arb, hq, sc, cfg, ev, mode, paths, isRunning, scanning, scanCount, notified,
                   nonce, chainNonce, txs, unsynced>>

\* getNextNonce: if (nonce === null) nonce = await wallet.getNonce();
\* return nonce++ -- the value returned, the counter is left one above it
getNextNonce(counter, latest) == IF counter = NullNonce THEN latest ELSE counter

\* tx.nonce = await getNextNonce(): a counter that holds a value is returned
\* and incremented at once; a null counter makes the call await
\* wallet.getNonce()
AssignNonce(c) ==
    /\ cyc[c].pc = "nonce"
    /\ IF nonce = NullNonce
       THEN /\ cyc' = [cyc EXCEPT ![c].pc = "fetch"]
            /\ UNCHANGED <<nonce, unsynced>>
       ELSE /\ nonce' = getNextNonce(nonce, chainNonce) + 1
            /\ cyc' = [cyc EXCEPT ![c].pc = "send",
                                  ![c].txNonce = getNextNonce(nonce, chainNonce)]
            /\ UNCHANGED unsynced
    /\ UNCHANGED <<ft, rst, od, arb, hq, sc, cfg, ev, mode, paths, isRunning, scanning, scanCount, notified,
                   chainNonce, txs>>

\* wallet.getNonce() settles inside getNextNonce: nonce = <the account's
\* count>; return nonce++ -- whatever the counter held in the meantime
FetchNonce(c) ==
    /\ cyc[c].pc = "fetch"
    /\ \/ /\ nonce' = getNextNonce(NullNonce, chainNonce) + 1
          /\ cyc' = [cyc EXCEPT ![c].pc = "send",
                                ![c].txNonce = getNextNonce(NullNonce, chainNonce)]
          /\ unsynced' = FALSE
       \/ \* wallet.getNonce throws: catch
          /\ cyc' = [cyc EXCEPT ![c].pc = "reset"]
          /\ UNCHANGED <<nonce, unsynced>>
    /\ UNCHANGED <<ft, rst, od, arb, hq, sc, cfg, ev, mode, paths, isRunning, scanning, scanCount, notified,
                   chainNonce, txs>>

\* wallet.sendTransaction(tx): the node refuses a nonce below the account's
Send(c) ==
    /\ cyc[c].pc = "send"
    /\ \/ /\ cyc[c].txNonce >= chainNonce
          /\ txs' = Append(txs, [nonce |-> cyc[c].txNonce, status |-> "pending",
                                 wellFormed |-> StepInvariants(cyc[c].opp.asset,
                                                               cyc[c].opp.swapSteps)])
          /\ cyc' = [cyc EXCEPT ![c].pc = "confirm", ![c].txi = Len(txs) + 1,
                                ![c].sent = TRUE, ![c].attempts = @ + 1]
          /\ UNCHANGED unsynced
       \/ \* broadcast failure: catch
          /\ cyc' = [cyc EXCEPT ![c].pc = "reset", ![c].sent = TRUE,
                                ![c].attempts = @ + 1]
          /\ unsynced' = TRUE
          /\ UNCHANGED txs
    /\ UNCHANGED <<ft, rst, od, arb, hq, sc, cfg, ev, mode, paths, isRunning, scanning, scanCount, notified,
                   nonce, chainNonce>>

\* catch (error) { await resetNonce(); return null; }
ResetNonce(c) ==
    /\ cyc[c].pc = "reset"
    /\ \/ /\ nonce' = chainNonce
          /\ unsynced' = FALSE
       \/ \* wallet.getNonce throws inside the catch block
          UNCHANGED <<nonce, unsynced>>
    /\ cyc' = [cyc EXCEPT ![c].pc = afterFailure("broadcast"), ![c].result = "failure"]
    /\ UNCHANGED <<ft, rst, od, arb, hq, sc, cfg, ev, mode, paths, isRunning, scanning, scanCount, notified,
                   chainNonce, txs>>

receiptOkAnyStatus(status) == status \in {"confirmed", "reverted"}
\* if (receipt && receipt.status === 1): the receipt sendAndConfirm returns,
\* which handleOpportunity turns into { success: true, ... }
receiptOk(status) == status = "confirmed"

\* the outcomes of waitForFlashblockConfirmation(hash, 10000) that sendAndConfirm
\* tells apart: receipt with status 1, receipt with another status, no receipt
\* within the timeout, an exception
Confirm(c) ==
    /\ cyc[c].pc = "confirm"
    /\ \/ /\ receiptOk(txs[cyc[c].txi].status)
          /\ cyc' = [cyc EXCEPT ![c].pc = "end", ![c].result = "success"]
       \/ /\ txs[cyc[c].txi].status = "reverted"
          /\ cyc' = [cyc EXCEPT ![c].pc = afterFailure("reverted"),
                                ![c].result = "failure"]
       \/ cyc' = [cyc EXCEPT ![c].pc = afterFailure("confirmation"),
                             ![c].result = "failure"]
    /\ UNCHANGED <<ft, rst, od, arb, hq, sc, cfg, ev, mode, paths, isRunning, scanning, scanCount, notified,
                   nonce, chainNonce, txs, unsynced>>

\* the cycle is over: scanning = false, or the sleep of the polling loop
releaseGuardOnSuccess(m, busy, result) == IF m = "flashblocks" /\ result = "success" THEN FALSE ELSE busy
\* scanning = false, after the try/catch of the handler: whatever the result
\* of the cycle; the polling loop has no guard
releaseGuard(m, busy, result) == IF m = "flashblocks" THEN FALSE ELSE busy

EndCycle(c) ==
    /\ cyc[c].pc = "end"
    /\ cyc' = [cyc EXCEPT ![c] = idleCycle]
    /\ scanning' = releaseGuard(mode, scanning, cyc[c].result)
    /\ UNCHANGED <<ft, rst, od, arb, hq, sc, cfg, ev, mode, paths, isRunning, scanCount, notified, nonce,
                   chainNonce, txs, unsynced>>

\* the chain includes the pending transaction that carries the account's next
\* nonce; it succeeds or reverts, and a rival with the same nonce is dropped
Mine(i) ==
    /\ txs[i].status = "pending"
    /\ txs[i].nonce = chainNonce
    /\ \E st \in {"confirmed", "reverted"} :
         txs' = [j \in 1..Len(txs) |->
                   IF j = i THEN [txs[j] EXCEPT !.status = st]
                   ELSE IF txs[j].status = "pending" /\ txs[j].nonce = chainNonce
                        THEN [txs[j] EXCEPT !.status = "replaced"]
                        ELSE txs[j]]
    /\ chainNonce' = chainNonce + 1
    /\ UNCHANGED <<ft, rst, od, arb, hq, sc, cfg, ev, mode, paths, isRunning, scanning, scanCount, notified,
                   cyc, nonce, unsynced>>

MainConfigs == [slippageBuffer : {DefaultSlippage}, contractAddr : BOOLEAN]

Init ==
    /\ cfg \in MainConfigs
    /\ ev = Null
    /\ hq = Null
    /\ sc = Null
    /\ InitBot
    /\ rst = Null
    /\ od = Null
    /\ arb = Null
    /\ ft = Null

Next ==
    \/ StartScanning
    \/ Notify
    \/ PollTick
    \/ \E c \in Slots : ScanQuoted(c)
    \/ \E c \in Slots : ScanBuilt(c)
    \/ \E c \in Slots : ScanProfitable(c)
    \/ \E c \in Slots : ScanSimulated(c)
    \/ \E c \in Slots : Handle(c)
    \/ \E c \in Slots : HandlePopulated(c)
    \/ \E c \in Slots : HandleEstimated(c)
    \/ \E c \in Slots : FeeData(c)
    \/ \E c \in Slots : AssignNonce(c)
    \/ \E c \in Slots : FetchNonce(c)
    \/ \E c \in Slots : Send(c)
    \/ \E c \in Slots : ResetNonce(c)
    \/ \E c \in Slots : Confirm(c)
    \/ \E c \in Slots : EndCycle(c)
    \/ \E i \in 1..Len(txs) : Mine(i)

Spec == Init /\ [][Next]_vars

\* the next step of a cycle in flight
CycleStep ==
    \E c \in Slots :
        \/ ScanQuoted(c)
        \/ ScanBuilt(c)
        \/ ScanProfitable(c)
        \/ ScanSimulated(c)
        \/ Handle(c)
        \/ HandlePopulated(c)
        \/ HandleEstimated(c)
        \/ FeeData(c)
        \/ AssignNonce(c)
        \/ FetchNonce(c)
        \/ Send(c)
        \/ ResetNonce(c)
        \/ Confirm(c)
        \/ EndCycle(c)

\* every awaited call of a cycle returns, throws or times out, so the cycle
\* in flight eventually takes its next step, and the feed keeps notifying
CycleFairness == WF_vars(CycleStep) /\ WF_vars(Notify)

\* the configured route of the runs checked for progress: two hops, each on
\* one named venue
LivePath == <<Hop("A", "B", "sushi"), Hop("B", "A", "sushi")>>

InitLive ==
    /\ cfg \in MainConfigs
    /\ ev = Null
    /\ hq = Null
    /\ sc = Null
    /\ rst = Null
    /\ od = Null
    /\ arb = Null
    /\ ft = Null
    /\ mode \in {"flashblocks", "polling"}
    /\ paths = <<LivePath>>
    /\ isRunning = FALSE
    /\ scanning = FALSE
    /\ scanCount = 0
    /\ notified = noNotification
    /\ cyc = [c \in Slots |-> idleCycle]
    /\ nonce = NullNonce
    /\ chainNonce = 0
    /\ txs = <<>>
    /\ unsynced = FALSE

SpecLive == InitLive /\ [][Next]_vars /\ CycleFairness

(***************************************************************************)
(* SpecEval: evaluatePath under every configuration, path and reply        *)
(***************************************************************************)
Configs == [slippageBuffer : Slippages, contractAddr : BOOLEAN]

\* the scheduler is not started
botIdle ==
    /\ mode = "polling"
    /\ paths = <<>>
    /\ isRunning = FALSE
    /\ scanning = FALSE
    /\ scanCount = 0
    /\ notified = noNotification
    /\ cyc = [c \in Slots |-> idleCycle]
    /\ nonce = NullNonce
    /\ chainNonce = 0
    /\ txs = <<>>
    /\ unsynced = FALSE

InitEval ==
    /\ cfg \in Configs
    /\ \E p \in Paths : ev = evalStart(p)
    /\ hq = Null
    /\ sc = Null
    /\ botIdle
    /\ rst = Null
    /\ od = Null
    /\ arb = Null
    /\ ft = Null

\* evaluatePath is called and runs to the await of its first getBestHopQuote
EvalCall ==
    /\ ev.pc = "hop"
    /\ ev' = evalRequest(ev)
    /\ UNCHANGED <<ft, rst, od, arb, hq, sc, cfg, mode, paths, isRunning, scanning, scanCount, notified, cyc,
                   nonce, chainNonce, txs, unsynced>>

EvalQuoted ==
    /\ ev.pc = "quote"
    /\ ev' \in quotedSuccessors(ev, TRUE)
    /\ UNCHANGED <<ft, rst, od, arb, hq, sc, cfg, mode, paths, isRunning, scanning, scanCount, notified, cyc,
                   nonce, chainNonce, txs, unsynced>>

EvalBuilt ==
    /\ ev.pc = "build"
    /\ ev' \in builtSuccessors(ev, cfg.slippageBuffer)
    /\ UNCHANGED <<ft, rst, od, arb, hq, sc, cfg, mode, paths, isRunning, scanning, scanCount, notified, cyc,
                   nonce, chainNonce, txs, unsynced>>

EvalProfitable ==
    /\ ev.pc = "profit"
    /\ ev' = evalProfitable(ev, cfg.contractAddr)
    /\ UNCHANGED <<ft, rst, od, arb, hq, sc, cfg, mode, paths, isRunning, scanning, scanCount, notified, cyc,
                   nonce, chainNonce, txs, unsynced>>

EvalSimulated ==
    /\ ev.pc = "sim"
    /\ \E chainOk \in BOOLEAN : ev' = evalSimulated(ev, chainOk)
    /\ UNCHANGED <<ft, rst, od, arb, hq, sc, cfg, mode, paths, isRunning, scanning, scanCount, notified, cyc,
                   nonce, chainNonce, txs, unsynced>>

EvalAgain ==
    /\ ev.pc = "done"
    /\ \E p \in Paths : ev' = evalStart(p)
    /\ UNCHANGED <<ft, rst, od, arb, hq, sc, cfg, mode, paths, isRunning, scanning, scanCount, notified, cyc,
                   nonce, chainNonce, txs, unsynced>>

NextEval ==
    \/ EvalCall
    \/ EvalQuoted
    \/ EvalBuilt
    \/ EvalProfitable
    \/ EvalSimulated
    \/ EvalAgain

SpecEval == InitEval /\ [][NextEval]_vars

(***************************************************************************)
(* SpecQuote: getBestHopQuote under every hint, every reply of the sources *)
(* asked and several orders of arrival of the replies                      *)
(***************************************************************************)
\* hop.dex: no hint, the venue hints the code tests for, and a venue that is
\* not configured
Hints ==
    {"", "uniswap", "uniswapV2", "uniswapV3", "aerodrome", "pancakeswap",
     "pancakeswapV3", "baseswap", "sushi"}

\* arrival[k] is the request whose response arrives k-th
IdentityOrder(n) == [k \in 1..n |-> k]
ArrivalOrders(n) ==
    { IdentityOrder(n), [k \in 1..n |-> n + 1 - k], [k \in 1..n |-> (k % n) + 1] }

\* Promise.allSettled: result i is the outcome of promise i, whenever it arrived
allSettled(replies, arrival) ==
    [i \in 1..Len(replies) |->
        replies[arrival[CHOOSE k \in 1..Len(arrival) : arrival[k] = i]]]

\* one call: the hint, what each source asked will answer (in request order)
\* and the order in which the answers arrive
quoteCall(preferredDex, replies, arrival) ==
    [pc |-> "call", preferredDex |-> preferredDex, replies |-> replies,
     arrival |-> arrival, requested |-> <<>>, ret |-> Null]

ReplySeqs(d) ==
    { settled(r1, r2, r3, r4, r5, r6) :
        r1 \in RepliesIf("uniswapV2", d, TRUE), r2 \in RepliesIf("uniswapV3", d, TRUE),
        r3 \in RepliesIf("aerodrome", d, TRUE), r4 \in RepliesIf("pancakeswapV3", d, TRUE),
        r5 \in RepliesIf("baseswap", d, TRUE), r6 \in RepliesIf("odos", d, TRUE) }

QuoteCalls ==
    UNION { UNION { { quoteCall(d, rs, a) : a \in ArrivalOrders(Len(rs)) } :
                    rs \in ReplySeqs(d) } : d \in Hints }

\* getBestHopQuote from the pushes of the requests to the await of
\* Promise.allSettled
hopQuoteRequest(h) ==
    [h EXCEPT !.pc = "await", !.requested = quotePromises(h.preferredDex)]

\* getBestHopQuote from the settled results to its return
hopQuoteSettled(h) ==
    [h EXCEPT !.pc = "done", !.ret = getBestHopQuote(allSettled(h.replies, h.arrival))]

InitQuote ==
    /\ cfg \in MainConfigs
    /\ ev = Null
    /\ sc = Null
    /\ hq \in QuoteCalls
    /\ botIdle
    /\ rst = Null
    /\ od = Null
    /\ arb = Null
    /\ ft = Null

QuoteRequest ==
    /\ hq.pc = "call"
    /\ hq' = hopQuoteRequest(hq)
    /\ UNCHANGED <<ft, rst, od, arb, sc, cfg, ev, mode, paths, isRunning, scanning, scanCount, notified,
                   cyc, nonce, chainNonce, txs, unsynced>>

QuoteSettled ==
    /\ hq.pc = "await"
    /\ hq' = hopQuoteSettled(hq)
    /\ UNCHANGED <<ft, rst, od, arb, sc, cfg, ev, mode, paths, isRunning, scanning, scanCount, notified,
                   cyc, nonce, chainNonce, txs, unsynced>>

NextQuote == QuoteRequest \/ QuoteSettled

SpecQuote == InitQuote /\ [][NextQuote]_vars

(***************************************************************************)
(* SpecRepeat: evaluatePath called twice on the same path while every      *)
(* source, the assemble endpoint and the simulation answer the second call *)
(* as they answered the first.  The responses of a hop's concurrent        *)
(* requests arrive one by one, in any order, and Promise.allSettled        *)
(* resolves when the last one has arrived.                                 *)
(***************************************************************************)
\* the path evaluated: the first hop asks both venues of the hint and the
\* aggregator, the second the hinted venue and the aggregator
RepeatPath == <<Hop("A", "B", "uniswap"), Hop("B", "A", "aerodrome")>>

\* a promise of quotePromises that has not settled
PendingPromise == Reply("pending", "", 0, 0, FALSE)

\* the responses of the sources asked for hop h, in request order
HopResponses(h) == ReplySeqs(RepeatPath[h].dex)

\* the slot of the first promise not yet written
firstPending(results) == CHOOSE k \in 1..Len(results) : results[k] = PendingPromise /\ \A j \in 1..(k - 1) : results[j] # PendingPromise

settleInArrivalOrder(results, i, outcome) == [results EXCEPT ![firstPending(results)] = outcome]
\* Promise.allSettled: the outcome of promise i becomes result i, whenever it
\* arrives
settle(results, i, outcome) == [results EXCEPT ![i] = outcome]

\* the promises of the hop in flight, none settled
hopInFlight(h, e) ==
    [h EXCEPT !.results = [k \in 1..Len(h.resp[e.i]) |-> PendingPromise], !.arrived = {}]

\* what a finished run produced
runOutcome(e, inOrder) ==
    [ret |-> e.ret, swapSteps |-> e.swapSteps, netProfit |-> e.netProfit,
     inOrder |-> inOrder]

varsOutsideRepeat ==
    <<ft, rst, od, arb, sc, cfg, mode, paths, isRunning, scanning, scanCount, notified, cyc,
      nonce, chainNonce, txs, unsynced>>

InitRepeat ==
    /\ cfg \in MainConfigs
    /\ ev = evalStart(RepeatPath)
    /\ \E r1 \in HopResponses(1), r2 \in HopResponses(2),
          assembled \in Assembled, chainOk \in BOOLEAN :
          hq = [run |-> 1, resp |-> <<r1, r2>>, assembled |-> assembled,
                chainOk |-> chainOk, results |-> <<>>, arrived |-> {},
                inOrder |-> TRUE, first |-> Null]
    /\ sc = Null
    /\ botIdle
    /\ rst = Null
    /\ od = Null
    /\ arb = Null
    /\ ft = Null

\* evaluatePath is called and runs to the await of its first getBestHopQuote
RepeatCall ==
    /\ ev.pc = "hop"
    /\ ev' = evalRequest(ev)
    /\ hq' = hopInFlight(hq, ev)
    /\ UNCHANGED varsOutsideRepeat

\* the response of request i arrives
RepeatSourceSettles(i) ==
    /\ ev.pc = "quote"
    /\ i \in 1..Len(hq.results)
    /\ i \notin hq.arrived
    /\ hq' = [hq EXCEPT !.results = settle(@, i, hq.resp[ev.i][i]),
                        !.arrived = @ \cup {i},
                        !.inOrder = @ /\ i = Cardinality(hq.arrived) + 1]
    /\ UNCHANGED <<ev, varsOutsideRepeat>>

\* every response has arrived: Promise.allSettled resolves
RepeatQuoted ==
    /\ ev.pc = "quote"
    /\ hq.arrived = 1..Len(hq.results)
    /\ ev' = evalQuoted(ev, hq.results)
    /\ UNCHANGED <<hq, varsOutsideRepeat>>

\* buildSwapStep settles; the next hop's requests are issued
RepeatBuilt ==
    /\ ev.pc = "build"
    /\ ev' = evalBuilt(ev, hq.assembled, cfg.slippageBuffer)
    /\ hq' = IF ev'.pc = "quote" THEN hopInFlight(hq, ev') ELSE hq
    /\ UNCHANGED varsOutsideRepeat

RepeatProfitable ==
    /\ ev.pc = "profit"
    /\ ev' = evalProfitable(ev, cfg.contractAddr)
    /\ UNCHANGED <<hq, varsOutsideRepeat>>

RepeatSimulated ==
    /\ ev.pc = "sim"
    /\ ev' = evalSimulated(ev, hq.chainOk)
    /\ UNCHANGED <<hq, varsOutsideRepeat>>

\* the first call has returned: evaluatePath is called again on the same path
RepeatAgain ==
    /\ ev.pc = "done"
    /\ hq.run = 1
    /\ ev' = evalStart(RepeatPath)
    /\ hq' = [hq EXCEPT !.run = 2, !.first = runOutcome(ev, hq.inOrder),
                        !.results = <<>>, !.arrived = {}, !.inOrder = TRUE]
    /\ UNCHANGED varsOutsideRepeat

NextRepeat ==
    \/ RepeatCall
    \/ \E i \in 1..Len(AllSources) : RepeatSourceSettles(i)
    \/ RepeatQuoted
    \/ RepeatBuilt
    \/ RepeatProfitable
    \/ RepeatSimulated
    \/ RepeatAgain

SpecRepeat == InitRepeat /\ [][NextRepeat]_vars

(***************************************************************************)
(* SpecScan: scanAllPaths over a list of candidate paths, each evaluation  *)
(* settling on its own with an Opportunity, with null or by rejecting      *)
(***************************************************************************)
\* const batchSize = 5
BatchSize == 5
\* the number of candidate paths
NumPaths == 7

\* the entries of paths: a hop list, an empty list, or null
PathShapes ==
    { [j \in 1..NumPaths |-> "path"],
      [j \in 1..NumPaths |-> IF j = 2 THEN "empty" ELSE "path"],
      [j \in 1..NumPaths |->
          IF j = 3 THEN "empty" ELSE IF j = NumPaths THEN "nullpath" ELSE "path"] }

\* config.scanAmount: unset, a decimal string, a string parseUnits rejects
ScanAmounts == {"", "1", "abc"}
\* config.scanAmount || '1'
scanAmountStr(scanAmount) == IF scanAmount = "" THEN "1" ELSE scanAmount
\* ethers.parseUnits(scanAmountStr, 'ether') throws on a string that is not a
\* decimal number
parseUnitsThrows(str) == str \notin {"1"}

List(items) == [k |-> "list", items |-> items]

\* the call before its first statement; evals[j] is the state of the
\* evaluation of path j: "idle", "running", "opp", "null" or "rejected"
scanStart(shape, scanAmount, profitOf) ==
    [pc |-> "start", shape |-> shape, scanAmount |-> scanAmount, i |-> 1,
     evals |-> [j \in 1..NumPaths |-> "idle"], opportunities |-> <<>>,
     ret |-> Null, threw |-> FALSE, profitOf |-> profitOf, sorted |-> <<>>,
     picked |-> 0]

\* the netProfit of the Opportunity of path j, if its evaluation gives one:
\* all equal, all different, or a few values with ties at the maximum
ProfitProfiles ==
    { [j \in 1..NumPaths |-> 1],
      [j \in 1..NumPaths |-> j],
      [j \in 1..NumPaths |-> ((2 * j) % 3) + 1] }

scanPropagates(opps) == Threw
\* catch (error) { log(...) } ... return opportunities
scanCaught(opps) == List(opps)

batchEndAll(i, n) == n
\* paths.slice(i, i + batchSize): the index of the last path of the batch
batchEnd(i, n) == IF i + BatchSize - 1 < n THEN i + BatchSize - 1 ELSE n

\* batch.map: a null or empty path resolves to null, any other entry starts
\* an evaluatePath call
launch(shapeOfPath) == IF shapeOfPath = "path" THEN "running" ELSE "null"

RECURSIVE collectAll(_, _, _, _)
collectAll(opps, evals, j, last) ==
    IF j > last THEN opps
    ELSE collectAll(IF evals[j] \in {"opp", "null"} THEN Append(opps, j)
                    ELSE opps, evals, j + 1, last)
\* for (const result of results) if (fulfilled && result.value) push
RECURSIVE collectBatch(_, _, _, _)
collectBatch(opps, evals, j, last) ==
    IF j > last THEN opps
    ELSE collectBatch(IF evals[j] = "opp" THEN Append(opps, j)
                      ELSE opps, evals, j + 1, last)

InitScan ==
    /\ cfg \in MainConfigs
    /\ ev = Null
    /\ hq = Null
    /\ \E shape \in PathShapes, a \in ScanAmounts, f \in ProfitProfiles :
          sc = scanStart(shape, a, f)
    /\ botIdle
    /\ rst = Null
    /\ od = Null
    /\ arb = Null
    /\ ft = Null

\* lines 224-226: the scan amount; a throw goes to the catch block
ScanBegin ==
    /\ sc.pc = "start"
    /\ sc' = IF parseUnitsThrows(scanAmountStr(sc.scanAmount))
             THEN [sc EXCEPT !.pc = "done", !.threw = TRUE,
                             !.ret = scanCaught(sc.opportunities)]
             ELSE [sc EXCEPT !.pc = "batch"]
    /\ UNCHANGED <<ft, rst, od, arb, hq, cfg, ev, mode, paths, isRunning, scanning, scanCount, notified,
                   cyc, nonce, chainNonce, txs, unsynced>>

\* the loop test and the start of every evaluation of the batch
ScanLaunch ==
    /\ sc.pc = "batch"
    /\ sc' = IF sc.i > NumPaths
             THEN [sc EXCEPT !.pc = "done", !.ret = List(sc.opportunities)]
             ELSE [sc EXCEPT !.pc = "await",
                             !.evals = [j \in 1..NumPaths |->
                                          IF j >= sc.i /\ j <= batchEnd(sc.i, NumPaths)
                                          THEN launch(sc.shape[j]) ELSE @[j]]]
    /\ UNCHANGED <<ft, rst, od, arb, hq, cfg, ev, mode, paths, isRunning, scanning, scanCount, notified,
                   cyc, nonce, chainNonce, txs, unsynced>>

\* one evaluatePath call settles
ScanEvalSettle(j) ==
    /\ sc.evals[j] = "running"
    /\ \E outcome \in {"opp", "null", "rejected"} :
          sc' = [sc EXCEPT !.evals[j] = outcome]
    /\ UNCHANGED <<ft, rst, od, arb, hq, cfg, ev, mode, paths, isRunning, scanning, scanCount, notified,
                   cyc, nonce, chainNonce, txs, unsynced>>

\* Promise.allSettled resolves; the results are collected in path order
ScanCollect ==
    /\ sc.pc = "await"
    /\ \A j \in 1..NumPaths : sc.evals[j] # "running"
    /\ sc' = [sc EXCEPT !.pc = "batch",
                        !.opportunities =
                            collectBatch(@, sc.evals, sc.i, batchEnd(sc.i, NumPaths)),
                        !.i = @ + BatchSize]
    /\ UNCHANGED <<ft, rst, od, arb, hq, cfg, ev, mode, paths, isRunning, scanning, scanCount, notified,
                   cyc, nonce, chainNonce, txs, unsynced>>

compareNone(profitA, profitB) == 0
\* the comparator of opportunities.sort: positive when a sorts after b
compareProfit(profitA, profitB) ==
    IF profitB > profitA THEN 1 ELSE IF profitB < profitA THEN 0 - 1 ELSE 0

\* Array.prototype.sort is stable: x goes behind every element that does not
\* sort after it
RECURSIVE insertSorted(_, _, _, _)
insertSorted(sorted, x, profitOf, k) ==
    IF k > Len(sorted) THEN Append(sorted, x)
    ELSE IF compareProfit(profitOf[sorted[k]], profitOf[x]) > 0
         THEN SubSeq(sorted, 1, k - 1) \o <<x>> \o SubSeq(sorted, k, Len(sorted))
         ELSE insertSorted(sorted, x, profitOf, k + 1)

RECURSIVE sortOpportunities(_, _, _)
sortOpportunities(items, profitOf, n) ==
    IF n = 0 THEN <<>>
    ELSE insertSorted(sortOpportunities(items, profitOf, n - 1), items[n], profitOf, 1)

\* the scheduler after scanAllPaths returned: sort, then opportunities[0]
ScanPick ==
    /\ sc.pc = "done"
    /\ LET sorted == sortOpportunities(sc.ret.items, sc.profitOf, Len(sc.ret.items))
       IN  sc' = [sc EXCEPT !.pc = "picked", !.sorted = sorted,
                            !.picked = IF Len(sorted) > 0 THEN sorted[1] ELSE 0]
    /\ UNCHANGED <<ft, rst, od, arb, hq, cfg, ev, mode, paths, isRunning, scanning, scanCount, notified,
                   cyc, nonce, chainNonce, txs, unsynced>>

NextScan ==
    \/ ScanBegin
    \/ ScanLaunch
    \/ \E j \in 1..NumPaths : ScanEvalSettle(j)
    \/ ScanCollect
    \/ ScanPick

SpecScan == InitScan /\ [][NextScan]_vars

(***************************************************************************)
(* SpecRestart: main(), startScanning and the restart after a fatal error  *)
(***************************************************************************)
\* bounds: the restarts, and the scans started in the runs with restarts
MaxRestarts == 2
MaxOverlap == 2

\* the slots of the cycles: one per handler the feed can hold, and the last
\* for the polling loop
LoopSlot == MaxRestarts + 2
RestartSlots == 1..LoopSlot

\* main() runs to its first await: wallet.provider.getBalance when a private
\* key is configured, initFlashblocks otherwise
mainEntry(key) == IF key THEN "balance" ELSE "initfb"

\* an awaited call outside every try block rejects: the promise of main()
\* rejects with it, nothing is logged and nothing after the call runs (no
\* caller handles the rejection: line 560, and line 556 after a restart)
mainRejects(r) == [r EXCEPT !.pc = "rejected"]

\* the process before main() is called
rstStart(key) ==
    [pc |-> "main", key |-> key, fb |-> FALSE, isRunning |-> FALSE, handlers |-> <<>>,
     loops |-> 0, loopBusy |-> FALSE, restarts |-> 0, fatalLogged |-> 0,
     backoffs |-> 0]

\* the feed keeps every callback it was given; a new callback has its own
\* `let scanning = false`
onFlashblock(handlers) == Append(handlers, FALSE)

\* the variables the steps of main() and startScanning leave alone
varsOutsideRestart ==
    <<ft, od, arb, hq, sc, cfg, ev, mode, paths, isRunning, scanning, scanCount, notified,
      cyc, nonce, chainNonce, txs, unsynced>>
\* the variables the start and the end of a cycle leave alone
varsOutsideCycle ==
    <<ft, od, arb, hq, sc, cfg, ev, mode, paths, isRunning, scanning, notified,
      nonce, chainNonce, txs, unsynced>>

InitRestart ==
    /\ cfg \in MainConfigs
    /\ ev = Null
    /\ hq = Null
    /\ sc = Null
    /\ od = Null
    /\ arb = Null
    /\ ft = Null
    /\ \E key \in BOOLEAN : rst = rstStart(key)
    /\ mode = "polling"
    /\ paths = <<LivePath>>
    /\ isRunning = FALSE
    /\ scanning = FALSE
    /\ scanCount = 0
    /\ notified = noNotification
    /\ cyc = [c \in RestartSlots |-> idleCycle]
    /\ nonce = NullNonce
    /\ chainNonce = 0
    /\ txs = <<>>
    /\ unsynced = FALSE

\* main() is called when the module is loaded
MainEnter ==
    /\ rst.pc = "main"
    /\ rst' = [rst EXCEPT !.pc = mainEntry(rst.key)]
    /\ UNCHANGED varsOutsideRestart

\* getBalance settles (a failure is caught and logged); initFlashblocks is called
MainBalance ==
    /\ rst.pc = "balance"
    /\ rst' = [rst EXCEPT !.pc = "initfb"]
    /\ UNCHANGED varsOutsideRestart

\* const fbEnabled = await initFlashblocks(); the value is logged and not
\* read again; getFlashLoanableAssets is called, or main rejects when
\* initFlashblocks does
MainFlashblocks ==
    /\ rst.pc = "initfb"
    /\ \/ \E fbEnabled \in BOOLEAN :
             rst' = [rst EXCEPT !.pc = "assets", !.fb = fbEnabled]
       \/ rst' = mainRejects(rst)
    /\ UNCHANGED varsOutsideRestart

\* getFlashLoanableAssets resolves and the token database file is read, or
\* it rejects and main rejects
MainAssets ==
    /\ rst.pc = "assets"
    /\ \/ rst' = [rst EXCEPT !.pc = "tokendb"]
       \/ rst' = mainRejects(rst)
    /\ UNCHANGED varsOutsideRestart

\* fs.readFile(tokenDbPath) settles: the database is parsed and fs.stat is
\* called, or the catch calls fetchAllPairs
MainTokenDb ==
    /\ rst.pc = "tokendb"
    /\ \E loaded \in BOOLEAN :
          rst' = [rst EXCEPT !.pc = IF loaded THEN "stat" ELSE "fetchpairs"]
    /\ UNCHANGED varsOutsideRestart

\* fetchAllPairs resolves: the database is written, or main returns when it
\* is empty; the call is in the catch block, so main rejects when it rejects
MainFetchPairs ==
    /\ rst.pc = "fetchpairs"
    /\ \/ \E built \in BOOLEAN :
             rst' = [rst EXCEPT !.pc = IF built THEN "writedb" ELSE "returned"]
       \/ rst' = mainRejects(rst)
    /\ UNCHANGED varsOutsideRestart

\* fs.writeFile resolves and fs.stat(pathsPath) is called, or it rejects
\* (the directory is missing or not writable) and main rejects: the call is
\* in the catch block of the try around fs.readFile
MainWriteDb ==
    /\ rst.pc = "writedb"
    /\ \/ rst' = [rst EXCEPT !.pc = "stat"]
       \/ rst' = mainRejects(rst)
    /\ UNCHANGED varsOutsideRestart

\* fs.stat settles: paths younger than a day are read, otherwise (or when
\* the file is missing) generateAndCachePaths is called
MainStat ==
    /\ rst.pc = "stat"
    /\ \E needsUpdate \in BOOLEAN :
          rst' = [rst EXCEPT !.pc = IF needsUpdate THEN "generate" ELSE "readpaths"]
    /\ UNCHANGED varsOutsideRestart

\* generateAndCachePaths resolves and the paths file is read, or it rejects
\* and main rejects
MainGenerate ==
    /\ rst.pc = "generate"
    /\ \/ rst' = [rst EXCEPT !.pc = "readpaths"]
       \/ rst' = mainRejects(rst)
    /\ UNCHANGED varsOutsideRestart

\* fs.readFile(pathsPath) settles: main returns when the paths cannot be
\* read or parsed, otherwise it goes on to call startScanning; a file that
\* holds `null` parses, and `paths.length` (line 535, outside the try) throws
MainReadPaths ==
    /\ rst.pc = "readpaths"
    /\ \/ \E loaded \in BOOLEAN :
             rst' = [rst EXCEPT !.pc = IF loaded THEN "start" ELSE "returned"]
       \/ rst' = mainRejects(rst)
    /\ UNCHANGED varsOutsideRestart

\* startScanning: isRunning = true, then the handler is registered or the
\* polling loop is entered; onFlashblock may throw instead.  The branch is
\* chosen by what isFlashblocksEnabled() answers at this moment, not by the
\* value initFlashblocks resolved with (rst.fb), which main only logs
StartScanningRun ==
    /\ rst.pc = "start"
    /\ \E enabled \in BOOLEAN :
          IF enabled
          THEN \/ rst' = [rst EXCEPT !.pc = "keepalive", !.isRunning = TRUE,
                                     !.handlers = onFlashblock(@)]
               \/ rst' = [rst EXCEPT !.pc = "fatal", !.isRunning = TRUE]
          ELSE rst' = [rst EXCEPT !.pc = "polling", !.isRunning = TRUE, !.loops = @ + 1]
    /\ UNCHANGED varsOutsideRestart

\* a notification reaches handler h: if (!isRunning || scanning) return;
\* scanning = true; scanCount++; scanAllPaths is called
HandlerNotified(h) ==
    /\ h \in 1..Len(rst.handlers)
    /\ guardPasses(rst.isRunning, rst.handlers[h])
    /\ scanCount < MaxOverlap
    /\ rst' = [rst EXCEPT !.handlers[h] = TRUE]
    /\ scanCount' = scanCount + 1
    /\ cyc' = [cyc EXCEPT ![h] = beginScan(h)]
    /\ UNCHANGED varsOutsideCycle

\* handler h has scanned and executed: scanning = false
HandlerDone(h) ==
    /\ h \in 1..Len(rst.handlers)
    /\ rst.handlers[h]
    /\ cyc[h].pc = "end"
    /\ rst' = [rst EXCEPT !.handlers[h] = releaseGuard("flashblocks", @, cyc[h].result)]
    /\ cyc' = [cyc EXCEPT ![h] = idleCycle]
    /\ UNCHANGED <<scanCount, varsOutsideCycle>>

\* the polling loop: scanCount++ and the call of scanAllPaths
PollBegin ==
    /\ rst.pc = "polling"
    /\ rst.isRunning
    /\ ~rst.loopBusy
    /\ scanCount < MaxOverlap
    /\ rst' = [rst EXCEPT !.loopBusy = TRUE]
    /\ scanCount' = scanCount + 1
    /\ cyc' = [cyc EXCEPT ![LoopSlot] = beginScan(LoopSlot)]
    /\ UNCHANGED varsOutsideCycle

\* the polling loop: the iteration is over, await sleep(scanInterval)
PollEnd ==
    /\ rst.pc = "polling"
    /\ rst.loopBusy
    /\ cyc[LoopSlot].pc = "end"
    /\ rst' = [rst EXCEPT !.loopBusy = FALSE]
    /\ cyc' = [cyc EXCEPT ![LoopSlot] = idleCycle]
    /\ UNCHANGED <<scanCount, varsOutsideCycle>>

\* an exception escapes startScanning: from the keep-alive loop, or from the
\* polling loop outside its try block (which ends that loop)
Escape ==
    /\ \/ /\ rst.pc = "keepalive"
          /\ rst' = [rst EXCEPT !.pc = "fatal"]
       \/ /\ rst.pc = "polling"
          /\ ~rst.loopBusy
          /\ rst' = [rst EXCEPT !.pc = "fatal", !.loops = @ - 1]
    /\ UNCHANGED varsOutsideRestart

\* catch (error) { log(`Fatal error: ...`); log('Restarting in 10 seconds...');
CatchFatal ==
    /\ rst.pc = "fatal"
    /\ rst' = [rst EXCEPT !.pc = "backoff", !.fatalLogged = @ + 1]
    /\ UNCHANGED varsOutsideRestart

\* await sleep(10000); main(); -- main runs to its first await
RestartMain ==
    /\ rst.pc = "backoff"
    /\ rst.restarts < MaxRestarts
    /\ rst' = [rst EXCEPT !.pc = mainEntry(rst.key), !.restarts = @ + 1,
                          !.backoffs = @ + 1]
    /\ UNCHANGED varsOutsideRestart

\* a step of the scan/execute cycle a handler or the polling loop started
RestartCycleStep(c) ==
    \/ ScanQuoted(c)
    \/ ScanBuilt(c)
    \/ ScanProfitable(c)
    \/ ScanSimulated(c)
    \/ Handle(c)
    \/ HandlePopulated(c)
    \/ HandleEstimated(c)
    \/ FeeData(c)
    \/ AssignNonce(c)
    \/ FetchNonce(c)
    \/ Send(c)
    \/ ResetNonce(c)
    \/ Confirm(c)

NextRestart ==
    \/ MainEnter
    \/ MainBalance
    \/ MainFlashblocks
    \/ MainAssets
    \/ MainTokenDb
    \/ MainFetchPairs
    \/ MainWriteDb
    \/ MainStat
    \/ MainGenerate
    \/ MainReadPaths
    \/ StartScanningRun
    \/ \E h \in 1..(MaxRestarts + 1) : HandlerNotified(h)
    \/ \E h \in 1..(MaxRestarts + 1) : HandlerDone(h)
    \/ PollBegin
    \/ PollEnd
    \/ Escape
    \/ CatchFatal
    \/ RestartMain
    \/ \E c \in RestartSlots : RestartCycleStep(c)
    \/ \E i \in 1..Len(txs) : Mine(i)

SpecRestart == InitRestart /\ [][NextRestart]_vars

(***************************************************************************)
(* SpecOdos: getOdosQuote and getOdosAssemble behind the shared limiter    *)
(***************************************************************************)
\* new RateLimiter(2, 1000)
LimiterCapacity == 2
\* bound: the calls in progress at once (hops of concurrent path evaluations)
MaxCalls == 3

OdosKinds == {"quote", "assemble"}

odosStepsAssembleUnlimited(kind) == IF kind = "assemble" THEN <<"post">> ELSE <<"acquire", "post">>
\* both functions: await dexAggregators.odos.limiter.acquire(); then, inside
\* try, await odosApi.post(...)
odosSteps(kind) == <<"acquire", "post">>

odosCall(kind) ==
    [kind |-> kind, pc |-> "start", acquired |-> FALSE, requests |-> 0, ret |-> "none"]

varsOutsideOdos ==
    <<ft, rst, arb, hq, sc, cfg, ev, mode, paths, isRunning, scanning, scanCount, notified,
      cyc, nonce, chainNonce, txs, unsynced>>

InitOdos ==
    /\ cfg \in MainConfigs
    /\ ev = Null
    /\ hq = Null
    /\ sc = Null
    /\ rst = Null
    /\ arb = Null
    /\ ft = Null
    /\ \E kinds \in [1..MaxCalls -> OdosKinds] :
          od = [tokens |-> LimiterCapacity, acquires |-> 0, sent |-> 0,
                calls |-> [k \in 1..MaxCalls |-> odosCall(kinds[k])]]
    /\ botIdle

\* the call is made and runs to its first await
OdosEnter(k) ==
    /\ od.calls[k].pc = "start"
    /\ od' = [od EXCEPT !.calls[k].pc = odosSteps(od.calls[k].kind)[1]]
    /\ UNCHANGED varsOutsideOdos

\* limiter.acquire() resolves when the bucket has a token, or rejects
OdosAcquire(k) ==
    /\ od.calls[k].pc = "acquire"
    /\ \/ /\ od.tokens > 0
          /\ od' = [od EXCEPT !.tokens = @ - 1, !.acquires = @ + 1,
                              !.calls[k].acquired = TRUE, !.calls[k].pc = "post"]
       \/ od' = [od EXCEPT !.calls[k].pc = "done", !.calls[k].ret = "threw"]
    /\ UNCHANGED varsOutsideOdos

\* odosApi.post('sor/quote/v3', ...) or odosApi.post('sor/assemble', ...)
OdosPost(k) ==
    /\ od.calls[k].pc = "post"
    /\ od' = [od EXCEPT !.sent = @ + 1, !.calls[k].requests = @ + 1,
                        !.calls[k].pc = "response"]
    /\ UNCHANGED varsOutsideOdos

\* the response arrives, or the request fails and the catch returns null
OdosResponse(k) ==
    /\ od.calls[k].pc = "response"
    /\ \E ret \in {"data", "null"} :
          od' = [od EXCEPT !.calls[k].pc = "done", !.calls[k].ret = ret]
    /\ UNCHANGED varsOutsideOdos

\* the limiter's window passes
LimiterRefill ==
    /\ od.tokens < LimiterCapacity
    /\ od' = [od EXCEPT !.tokens = LimiterCapacity]
    /\ UNCHANGED varsOutsideOdos

NextOdos ==
    \/ \E k \in 1..MaxCalls : OdosEnter(k)
    \/ \E k \in 1..MaxCalls : OdosAcquire(k)
    \/ \E k \in 1..MaxCalls : OdosPost(k)
    \/ \E k \in 1..MaxCalls : OdosResponse(k)
    \/ LimiterRefill

SpecOdos == InitOdos /\ [][NextOdos]_vars

(***************************************************************************)
(* SpecArb: the BaseAlphaArb contract.  The owner sets the whitelist and   *)
(* the pause, tokens reach and leave the contract, and then one executeArb *)
(* or executeOperation transaction runs; a revert restores the state the   *)
(* transaction started from, and the owner may take the funds out after a  *)
(* success.  What the transaction did before it reverted (loans asked,     *)
(* routers approved and called) is kept in the fields of `did`, which no   *)
(* revert undoes.                                                          *)
(***************************************************************************)
\* bounds
LoanAmount == 10000
\* what the contract may hold before the transaction (profit it kept, or
\* tokens sent to it)
Retained == 50
ArbTokens == {"A", "B"}
Routers == {"R1", "R2"}
Callers == {"owner", "other"}
\* the premium the pool charges on the loan, what a router may send back,
\* and the minimum outputs a step may carry
Premiums == {0, 9}
Outs == {0, LoanAmount + 9, LoanAmount + 100}
MinOuts == {0, LoanAmount + 50}
PoolLiquidity == 3 * LoanAmount
DEX_UNKNOWN == 5

ArbStep(dexType, router, tokenIn, tokenOut, amountOutMin, data) ==
    [dexType |-> dexType, router |-> router, tokenIn |-> tokenIn,
     tokenOut |-> tokenOut, amountOutMin |-> amountOutMin, data |-> data]

BaseSteps ==
    { ArbStep(DEX_UNISWAP_V3, r, ti, to, m, "") :
        r \in Routers, ti \in ArbTokens, to \in ArbTokens, m \in MinOuts }

\* a cycle A -> B -> A -> ... -> A of n steps through R1
LongSteps(n) ==
    [i \in 1..n |->
        IF i % 2 = 0 THEN ArbStep(DEX_UNISWAP_V2, "R1", "B", "A", LoanAmount + 50, "")
        ELSE IF i < n THEN ArbStep(DEX_AERODROME, "R1", "A", "B", LoanAmount + 50, "")
        ELSE ArbStep(DEX_AERODROME, "R1", "A", "A", LoanAmount + 50, "")]

SpecialSteps ==
    { <<>>,
      LongSteps(MaxSteps),
      LongSteps(MaxSteps + 1),
      <<ArbStep(DEX_GENERIC, "R1", "A", "A", 0, "0x1234")>>,
      <<ArbStep(DEX_GENERIC, "R1", "A", "A", 0, "")>>,
      <<ArbStep(DEX_UNKNOWN, "R1", "A", "A", 0, "")>>,
      <<ArbStep(DEX_PANCAKESWAP_V3, "R1", "A", "ZeroAddress", 0, ""),
        ArbStep(DEX_PANCAKESWAP_V3, "R1", "ZeroAddress", "A", 0, "")>> }

StepArrays ==
    { <<s1>> : s1 \in BaseSteps }
        \cup { <<s1, s2>> : s1 \in BaseSteps, s2 \in BaseSteps }
        \cup SpecialSteps

onlyOwnerAnyone(caller, owner) == TRUE
\* modifier onlyOwner (Ownable)
onlyOwner(caller, owner) == caller = owner

routersWhitelistedFirstOnly(whitelistedRouters, steps) == steps[1].router \in whitelistedRouters
\* require(whitelistedRouters[steps[i].router], "Router not whitelisted")
routersWhitelisted(whitelistedRouters, steps) ==
    \A i \in 1..Len(steps) : steps[i].router \in whitelistedRouters

executeOperationChecksAnyInitiator(sender, initiator, inFlashLoan, stepCount) == sender = "POOL" /\ inFlashLoan /\ stepCount > 0
\* executeOperation: the three requires on the caller and the context
executeOperationChecks(sender, initiator, inFlashLoan, stepCount) ==
    /\ sender = "POOL"
    /\ initiator = "BaseAlphaArb"
    /\ inFlashLoan
    /\ stepCount > 0

stepOutputOkBalanceOnly(balanceBefore, balanceAfter, amountOutMin) == balanceAfter >= amountOutMin
\* amountOut = tokenOutBalanceAfter - tokenOutBalanceBefore (checked: an
\* underflow reverts); require(amountOut >= step.amountOutMin)
stepOutputOk(balanceBefore, balanceAfter, amountOutMin) ==
    /\ balanceAfter >= balanceBefore
    /\ balanceAfter - balanceBefore >= amountOutMin

repayAmountPrincipalOnly(amount, premium) == amount
\* uint256 repayAmount = amount + premium
repayAmountOf(amount, premium) == amount + premium

\* the dispatch on step.dexType: does the step reach the router
reachesRouter(step) ==
    IF step.dexType \in {DEX_UNISWAP_V3, DEX_AERODROME, DEX_PANCAKESWAP_V3, DEX_UNISWAP_V2}
    THEN TRUE
    ELSE IF step.dexType = DEX_GENERIC THEN step.data # ""
    ELSE FALSE

nothingDone == [flashLoans |-> 0, approved |-> {}, called |-> {}, stepsRun |-> 0,
                stepChecked |-> FALSE, shortStep |-> 0, balanceAtRepay |-> 0,
                foreignTried |-> FALSE, nestedAccepted |-> FALSE,
                reentryTried |-> FALSE, reentered |-> FALSE]

\* the storage of the contract and the token balances a transaction can change
persistent(a) ==
    [whitelistedRouters |-> a.whitelistedRouters, paused |-> a.paused,
     pendingSteps |-> a.pendingSteps, inFlashLoan |-> a.inFlashLoan,
     bal |-> a.bal, poolBal |-> a.poolBal]

\* the contract after its constructor: no router is whitelisted
arbDeployed ==
    [pc |-> "idle", whitelistedRouters |-> {}, paused |-> FALSE,
     pendingSteps |-> <<>>, inFlashLoan |-> FALSE, entered |-> FALSE,
     bal |-> [tk \in ArbTokens |-> 0],
     poolBal |-> [tk \in ArbTokens |-> PoolLiquidity],
     call |-> Null, pre |-> Null, premium |-> 0, i |-> 0, result |-> "none",
     reason |-> "none", did |-> nothingDone, events |-> <<>>]

\* a revert: every change of the transaction is undone
revertTx(a, reason) ==
    [a EXCEPT !.pc = "reverted", !.result = "reverted", !.reason = reason,
              !.whitelistedRouters = a.pre.whitelistedRouters,
              !.paused = a.pre.paused,
              !.pendingSteps = a.pre.pendingSteps,
              !.inFlashLoan = a.pre.inFlashLoan,
              !.entered = FALSE,
              !.bal = a.pre.bal,
              !.poolBal = a.pre.poolBal,
              !.events = <<>>]

varsOutsideArb ==
    <<ft, rst, od, hq, sc, cfg, ev, mode, paths, isRunning, scanning, scanCount, notified,
      cyc, nonce, chainNonce, txs, unsynced>>

InitArb ==
    /\ cfg = [slippageBuffer |-> DefaultSlippage, contractAddr |-> TRUE]
    /\ ev = Null
    /\ hq = Null
    /\ sc = Null
    /\ rst = Null
    /\ od = Null
    /\ arb = arbDeployed
    /\ ft = Null
    /\ botIdle

\* the requires of the loop over the steps, for step i, in the order of the
\* code: the first one that fails, or "none"
stepRequire(whitelistedRouters, steps, i) ==
    IF steps[i].router \notin whitelistedRouters THEN "Router not whitelisted"
    ELSE IF steps[i].tokenIn = "ZeroAddress" THEN "Invalid tokenIn"
    ELSE IF steps[i].tokenOut = "ZeroAddress" THEN "Invalid tokenOut"
    ELSE IF i > 1 /\ steps[i].tokenIn # steps[i - 1].tokenOut THEN "Path not connected"
    ELSE "none"

\* the message of the first require of executeArb that fails, or "none"
executeArbRevert(whitelistedRouters, asset, steps) ==
    IF Len(steps) = 0 THEN "No steps"
    ELSE IF Len(steps) > MaxSteps THEN "Too many steps"
    ELSE IF steps[1].tokenIn # asset THEN "First step tokenIn must match asset"
    ELSE IF steps[Len(steps)].tokenOut # asset THEN "Last step tokenOut must match asset"
    ELSE LET failing == {i \in 1..Len(steps) :
                            stepRequire(whitelistedRouters, steps, i) # "none"}
         IN  IF failing = {} THEN "none"
             ELSE stepRequire(whitelistedRouters, steps,
                              CHOOSE i \in failing : \A j \in failing : i <= j)

\* modifier nonReentrant (ReentrancyGuard)
nonReentrant(entered) == ~entered

\* executeArb up to the call of POOL.flashLoanSimple: the modifiers, then the
\* requires; the call goes on when every require holds and reverts with the
\* message of the first that fails
executeArbEntry(a, caller, asset, amount, steps) ==
    LET a0 == [a EXCEPT !.call = [kind |-> "executeArb", caller |-> caller,
                                  asset |-> asset, amount |-> amount, steps |-> steps],
                        !.pre = persistent(a), !.did = nothingDone,
                        !.premium = 0, !.i = 0]
    IN  IF ~onlyOwner(caller, "owner") THEN revertTx(a0, "owner")
        ELSE IF a.paused THEN revertTx(a0, "paused")
        ELSE IF ~nonReentrant(a.entered) THEN revertTx(a0, "reentrant")
        ELSE IF executeArbChecks(asset, steps)
                  /\ routersWhitelisted(a.whitelistedRouters, steps)
        THEN [a0 EXCEPT !.pc = "loan", !.pendingSteps = steps, !.inFlashLoan = TRUE,
                        !.entered = TRUE]
        ELSE revertTx(a0, executeArbRevert(a.whitelistedRouters, asset, steps))

ArbCall ==
    /\ arb.pc = "idle"
    /\ \E caller \in Callers, asset \in ArbTokens, steps \in StepArrays :
          arb' = executeArbEntry(arb, caller, asset, LoanAmount, steps)
    /\ UNCHANGED varsOutsideArb

\* POOL.flashLoanSimple: the pool sends the amount and calls executeOperation,
\* which checks its caller and context
ArbFlashLoan ==
    /\ arb.pc = "loan"
    /\ \E premium \in Premiums :
         LET asset == arb.call.asset
             amount == arb.call.amount
             a1 == [arb EXCEPT !.did.flashLoans = @ + 1, !.premium = premium]
         IN  IF arb.poolBal[asset] < amount THEN arb' = revertTx(a1, "liquidity")
             ELSE IF ~executeOperationChecks("POOL", "BaseAlphaArb", arb.inFlashLoan,
                                             Len(arb.pendingSteps))
             THEN arb' = revertTx(a1, "context")
             ELSE arb' = [a1 EXCEPT !.pc = "step", !.i = 1,
                                    !.bal[asset] = @ + amount,
                                    !.poolBal[asset] = @ - amount]
    /\ UNCHANGED varsOutsideArb

\* the callers and initiator arguments of executeOperation other than the
\* pool serving the contract's own loan: the pool serving a loan somebody
\* else asked for in the contract's name, and any account calling directly
ForeignCalls ==
    {<<"POOL", "other">>, <<"other", "BaseAlphaArb">>, <<"other", "other">>}

\* executeOperation called while no executeArb is in progress, by any caller
\* with any initiator argument
ArbForeignLoan ==
    /\ arb.pc = "idle"
    /\ \E asset \in ArbTokens,
          fc \in ForeignCalls \cup {<<"POOL", "BaseAlphaArb">>} :
         LET a0 == [arb EXCEPT !.call = [kind |-> "foreign", caller |-> "other",
                                         sender |-> fc[1], initiator |-> fc[2],
                                         asset |-> asset, amount |-> LoanAmount,
                                         steps |-> <<>>],
                               !.pre = persistent(arb), !.did = nothingDone,
                               !.premium = 0, !.i = 0]
         IN  IF ~executeOperationChecks(fc[1], fc[2], arb.inFlashLoan,
                                        Len(arb.pendingSteps))
             THEN arb' = revertTx(a0, "context")
             ELSE arb' = [a0 EXCEPT !.pc = "step", !.i = 1]
    /\ UNCHANGED varsOutsideArb

\* executeOperation called from inside a swap of an executeArb in progress
\* (a router asks the pool for a loan in the contract's name, or calls the
\* contract directly); the inner call reverts on a failed check and the
\* router goes on, otherwise the pending steps would run a second time
ArbNestedCall ==
    /\ arb.pc = "step"
    /\ ~arb.did.foreignTried
    /\ \E fc \in ForeignCalls :
         IF ~executeOperationChecks(fc[1], fc[2], arb.inFlashLoan,
                                    Len(arb.pendingSteps))
         THEN arb' = [arb EXCEPT !.did.foreignTried = TRUE]
         ELSE arb' = [arb EXCEPT !.did.foreignTried = TRUE,
                                 !.did.nestedAccepted = TRUE]
    /\ UNCHANGED varsOutsideArb

emitSwapExecutedOneBased(events, stepIndex, step, amountIn, amountOut) == Append(events, [name |-> "SwapExecuted", stepIndex |-> stepIndex + 1, dexType |-> step.dexType, tokenIn |-> step.tokenIn, tokenOut |-> step.tokenOut, amountIn |-> amountIn, amountOut |-> amountOut])
\* emit SwapExecuted(stepIndex, step.dexType, step.tokenIn, step.tokenOut,
\* amountIn, amountOut)
emitSwapExecuted(events, stepIndex, step, amountIn, amountOut) ==
    Append(events, [name |-> "SwapExecuted", stepIndex |-> stepIndex,
                    dexType |-> step.dexType, tokenIn |-> step.tokenIn,
                    tokenOut |-> step.tokenOut, amountIn |-> amountIn,
                    amountOut |-> amountOut])

\* uint256 profit = balanceAfter - repayAmount; emit ArbExecuted(asset,
\* amount, profit)
emitArbExecuted(events, asset, amount, balanceAfter, repayAmount) ==
    Append(events, [name |-> "ArbExecuted", asset |-> asset, amount |-> amount,
                    profit |-> balanceAfter - repayAmount])

\* _executeSwapStep(i, _pendingSteps[i]): the router reverts, or takes up to
\* the approved input and sends some output
executeSwapStep(a, routerReverts, pulled, out) ==
    LET step == a.pendingSteps[a.i]
        tokenOutBalanceBefore == a.bal[step.tokenOut]
        amountIn == a.bal[step.tokenIn]
        taken == IF pulled THEN amountIn ELSE 0
        bal1 == [a.bal EXCEPT ![step.tokenIn] = @ - taken]
        bal2 == [bal1 EXCEPT ![step.tokenOut] = @ + out]
        a1 == [a EXCEPT !.did.stepsRun = @ + 1]
        a2 == [a1 EXCEPT !.did.approved = @ \cup {step.router}]
        a3 == [a2 EXCEPT !.did.called = @ \cup {step.router}]
    IN  IF amountIn = 0 THEN revertTx(a1, "input")
        ELSE IF ~reachesRouter(step) THEN revertTx(a2, "dex")
        ELSE IF routerReverts THEN revertTx(a3, "swap")
        ELSE IF ~stepOutputOk(tokenOutBalanceBefore, bal2[step.tokenOut],
                              step.amountOutMin)
        THEN revertTx([a3 EXCEPT !.did.stepChecked = TRUE], "slippage")
        ELSE [a3 EXCEPT !.bal = bal2,
                        !.did.stepChecked = TRUE,
                        !.events = emitSwapExecuted(@, a.i - 1, step, amountIn,
                                       bal2[step.tokenOut] - tokenOutBalanceBefore),
                        !.did.shortStep =
                            IF bal2[step.tokenOut] - tokenOutBalanceBefore
                                  < step.amountOutMin
                            THEN a.i ELSE @,
                        !.i = @ + 1,
                        !.pc = IF a.i = Len(a.pendingSteps) THEN "repay" ELSE "step"]

ArbSwapStep ==
    /\ arb.pc = "step"
    /\ \E routerReverts \in BOOLEAN, pulled \in BOOLEAN, out \in Outs :
          arb' = executeSwapStep(arb, routerReverts, pulled, out)
    /\ UNCHANGED varsOutsideArb

\* executeOperation after the steps, the pool's pull of amount + premium from
\* the approval, and the cleanup of executeArb
ArbRepay ==
    /\ arb.pc = "repay"
    /\ LET asset == arb.call.asset
           repayAmount == repayAmountOf(arb.call.amount, arb.premium)
           owed == arb.call.amount + arb.premium
           balanceAfter == arb.bal[asset]
           a1 == [arb EXCEPT !.did.balanceAtRepay = balanceAfter]
       IN  IF balanceAfter < repayAmount THEN arb' = revertTx(a1, "repay")
           ELSE IF owed > repayAmount \/ owed > balanceAfter
           THEN arb' = revertTx(a1, "pull")
           ELSE arb' = [a1 EXCEPT !.pc = "done", !.result = "success",
                                  !.events = emitArbExecuted(@, asset, arb.call.amount,
                                                             balanceAfter, repayAmount),
                                  !.bal[asset] = @ - owed,
                                  !.poolBal[asset] = @ + owed,
                                  !.pendingSteps = <<>>,
                                  !.inFlashLoan = FALSE,
                                  !.entered = FALSE]
    /\ UNCHANGED varsOutsideArb

\* executeArb called from inside a swap of the executeArb in progress: the
\* inner call stops at a modifier and the router goes on
ArbReenter ==
    /\ arb.pc = "step"
    /\ ~arb.did.reentryTried
    /\ \E caller \in Callers :
          arb' = [arb EXCEPT !.did.reentryTried = TRUE,
                             !.did.reentered = /\ onlyOwner(caller, "owner")
                                               /\ ~arb.paused
                                               /\ nonReentrant(arb.entered)]
    /\ UNCHANGED varsOutsideArb

\* a transfer of tokens to the contract (a token's transfer, not a function
\* of the contract)
ArbReceive ==
    /\ arb.pc = "idle"
    /\ \E tk \in ArbTokens :
          /\ arb.bal[tk] = 0
          /\ arb' = [arb EXCEPT !.bal[tk] = Retained]
    /\ UNCHANGED varsOutsideArb

\* whitelistedRouters[router] = status
setWhitelisted(whitelistedRouters, router, status) ==
    IF status THEN whitelistedRouters \cup {router} ELSE whitelistedRouters \ {router}

\* setRouterWhitelist(router, status), by the owner
ArbSetRouterWhitelist ==
    /\ arb.pc = "idle"
    /\ \E router \in Routers, status \in BOOLEAN :
          arb' = [arb EXCEPT !.whitelistedRouters = setWhitelisted(@, router, status)]
    /\ UNCHANGED varsOutsideArb

\* the arrays of routers given to the batch function
RouterBatches ==
    {<<>>, <<"R1">>, <<"R1", "R2">>, <<"R2", "R1">>, <<"R2", "ZeroAddress">>}

RECURSIVE setRouterWhitelistBatch(_, _, _)
\* setRouterWhitelistBatch(routers, status): the loop over routers; a zero
\* address reverts the transaction, which leaves the whitelist as it was
setRouterWhitelistBatch(whitelistedRouters, routers, status) ==
    IF \E i \in 1..Len(routers) : routers[i] = "ZeroAddress" THEN whitelistedRouters
    ELSE IF routers = <<>> THEN whitelistedRouters
    ELSE setRouterWhitelistBatch(setWhitelisted(whitelistedRouters, Head(routers), status),
                                 Tail(routers), status)

\* setRouterWhitelistBatch(routers, status), by the owner
ArbSetRouterWhitelistBatch ==
    /\ arb.pc = "idle"
    /\ \E routers \in RouterBatches, status \in BOOLEAN :
          arb' = [arb EXCEPT !.whitelistedRouters =
                                setRouterWhitelistBatch(@, routers, status)]
    /\ UNCHANGED varsOutsideArb

\* the token the contract wraps and unwraps
WETH == "A"
\* the amounts asked of withdrawAmount, rescueERC20 and unwrapETH
FundAmounts == {0, Retained, LoanAmount}

\* withdraw(token): the whole balance goes to the owner; the balances after
\* the call (as before it when the call reverts)
withdraw(bal, caller, token) ==
    IF ~onlyOwner(caller, "owner") \/ bal[token] = 0 THEN bal
    ELSE [bal EXCEPT ![token] = 0]

\* withdrawAmount(token, amount): require(amount > 0), and the token's
\* transfer reverts above the balance
withdrawAmount(bal, caller, token, amount) ==
    IF ~onlyOwner(caller, "owner") \/ amount = 0 \/ amount > bal[token] THEN bal
    ELSE [bal EXCEPT ![token] = @ - amount]

\* rescueERC20(token, amount)
rescueERC20(bal, caller, token, amount) ==
    IF ~onlyOwner(caller, "owner") \/ amount = 0 \/ amount > bal[token] THEN bal
    ELSE [bal EXCEPT ![token] = @ - amount]

\* unwrapETH(amount): IWETH(WETH).withdraw(amount) burns the contract's WETH
unwrapETH(bal, caller, amount) ==
    IF ~onlyOwner(caller, "owner") \/ amount > bal[WETH] THEN bal
    ELSE [bal EXCEPT ![WETH] = @ - amount]

\* wrapETH(): the contract's ether balance becomes WETH
wrapETH(bal, caller, etherBalance) ==
    IF ~onlyOwner(caller, "owner") \/ etherBalance = 0 THEN bal
    ELSE [bal EXCEPT ![WETH] = @ + etherBalance]

\* the balances one call of a fund function can leave
afterFundCall(bal) ==
    { withdraw(bal, caller, tk) : caller \in Callers, tk \in ArbTokens }
      \cup { withdrawAmount(bal, caller, tk, amount) :
                caller \in Callers, tk \in ArbTokens, amount \in FundAmounts }
      \cup { rescueERC20(bal, caller, tk, amount) :
                caller \in Callers, tk \in ArbTokens, amount \in FundAmounts }
      \cup { unwrapETH(bal, caller, amount) : caller \in Callers, amount \in FundAmounts }

\* withdraw, withdrawAmount, rescueERC20 or unwrapETH, called before the
\* transaction or after a successful executeArb
ArbWithdraw ==
    /\ arb.pc \in {"idle", "done"}
    /\ \E bal \in afterFundCall(arb.bal) :
          arb' = [arb EXCEPT !.bal = bal,
                             !.pc = IF arb.pc = "done" THEN "withdrawn" ELSE @]
    /\ UNCHANGED varsOutsideArb

\* wrapETH(), with the ether the contract has received
ArbWrapETH ==
    /\ arb.pc = "idle"
    /\ arb.bal[WETH] = 0
    /\ \E caller \in Callers, etherBalance \in {0, Retained} :
          arb' = [arb EXCEPT !.bal = wrapETH(@, caller, etherBalance)]
    /\ UNCHANGED varsOutsideArb

\* pause() and unpause(), by the owner
ArbPause ==
    /\ arb.pc = "idle"
    /\ arb' = [arb EXCEPT !.paused = ~@]
    /\ UNCHANGED varsOutsideArb

NextArb ==
    \/ ArbCall
    \/ ArbFlashLoan
    \/ ArbForeignLoan
    \/ ArbNestedCall
    \/ ArbSwapStep
    \/ ArbRepay
    \/ ArbReenter
    \/ ArbReceive
    \/ ArbSetRouterWhitelist
    \/ ArbSetRouterWhitelistBatch
    \/ ArbWithdraw
    \/ ArbWrapETH
    \/ ArbPause

SpecArb == InitArb /\ [][NextArb]_vars

(***************************************************************************)
(* The fee-tier search of the concentrated-liquidity venue clients         *)
(* (dexService.js: getUniswapQuote, getPancakeSwapQuote)                   *)
(***************************************************************************)

TierVenues == {"uniswap", "pancakeswap"}

\* const fees = [500, 3000, 10000] and const fees = [500, 2500, 10000]
feesOf(venue) ==
    IF venue = "uniswap" THEN <<500, 3000, 10000>> ELSE <<500, 2500, 10000>>

\* what quoteExactInputSingle can answer for one tier: it throws (no pool),
\* or returns an amount
TierReplies ==
    {[ok |-> FALSE, quote |-> 0]} \cup {[ok |-> TRUE, quote |-> q] : q \in {0, AmtLo, AmtHi}}

\* bestQuote.toString(): the decimal digits of a non-negative BigInt
RECURSIVE bigIntToString(_)
bigIntToString(n) ==
    IF n < 10 THEN <<n>> ELSE Append(bigIntToString(n \div 10), n % 10)

\* BigInt(str), for a string of decimal digits
RECURSIVE stringToBigInt(_)
stringToBigInt(str) ==
    IF Len(str) = 0 THEN 0
    ELSE stringToBigInt(SubSeq(str, 1, Len(str) - 1)) * 10 + str[Len(str)]

\* if (quote > bestQuote) bestQuote = quote; a tier that throws is ignored
firstPassBest(bestQuote, reply) ==
    IF reply.ok /\ reply.quote > bestQuote THEN reply.quote ELSE bestQuote

varsOutsideTier ==
    <<rst, od, arb, hq, sc, cfg, ev, mode, paths, isRunning, scanning, scanCount, notified,
      cyc, nonce, chainNonce, txs, unsynced>>

InitTier ==
    /\ cfg = [slippageBuffer |-> DefaultSlippage, contractAddr |-> TRUE]
    /\ ev = Null
    /\ hq = Null
    /\ sc = Null
    /\ rst = Null
    /\ od = Null
    /\ arb = Null
    /\ \E venue \in TierVenues :
          ft = [pc |-> "first", venue |-> venue, i |-> 1, bestQuote |-> 0,
                first |-> <<>>, second |-> <<>>, result |-> Null]
    /\ botIdle

\* the first loop over the tiers: one query, then `if (bestQuote > 0n)`
\* after the last tier
TierFirstPass ==
    /\ ft.pc = "first"
    /\ \E reply \in TierReplies :
         LET best == firstPassBest(ft.bestQuote, reply)
             last == ft.i = Len(feesOf(ft.venue))
         IN  ft' = [ft EXCEPT !.bestQuote = best,
                              !.first = Append(@, reply),
                              !.i = IF last THEN 1 ELSE @ + 1,
                              !.pc = IF ~last THEN "first"
                                     ELSE IF best > 0 THEN "second" ELSE "done"]
    /\ UNCHANGED varsOutsideTier

\* the second loop: one query; `if (quote === bestQuote) return {...}`, and
\* `return null` after the last tier
TierSecondPass ==
    /\ ft.pc = "second"
    /\ \E reply \in TierReplies :
         LET fee == feesOf(ft.venue)[ft.i]
             last == ft.i = Len(feesOf(ft.venue))
         IN  IF reply.ok /\ reply.quote = ft.bestQuote
             THEN ft' = [ft EXCEPT !.second = Append(@, reply), !.pc = "done",
                                   !.result = [dex |-> ft.venue,
                                               toTokenAmount |-> bigIntToString(ft.bestQuote),
                                               fee |-> fee]]
             ELSE ft' = [ft EXCEPT !.second = Append(@, reply),
                                   !.i = IF last THEN @ ELSE @ + 1,
                                   !.pc = IF last THEN "done" ELSE "second"]
    /\ UNCHANGED varsOutsideTier

NextTier ==
    \/ TierFirstPass
    \/ TierSecondPass

SpecTier == InitTier /\ [][NextTier]_vars

(***************************************************************************)
(* Properties                                                              *)
(***************************************************************************)
\* the cycle in slot c is inside handleOpportunity -> sendAndConfirm
InSubmission(c) ==
    cyc[c].pc \in {"populate", "estimate", "fee", "nonce", "fetch", "send", "reset", "confirm"}

Pending == {i \in 1..Len(txs) : txs[i].status = "pending"}

\* C1: in both modes no cycle is inside a submission (handleOpportunity ->
\* sendAndConfirm) while another cycle's sendAndConfirm is still awaiting its
\* confirmation; at most one cycle is inside a submission at any time.
C1_NoSubmissionWhileConfirming ==
    \A c1, c2 \in Slots :
        (c1 # c2 /\ InSubmission(c2)) => ~InSubmission(c1)

\* C1 witness: a notification arrived, and was ignored, while the cycle in
\* flight was awaiting the confirmation of its transaction
C1_Witness ==
    /\ mode = "flashblocks"
    /\ notified.outcome = "ignored"
    /\ \E c \in Slots : cyc[c].pc = "confirm" /\ txs[cyc[c].txi].status = "pending"

\* C2: at any time at most one transaction broadcast by this process is
\* outstanding (broadcast, neither confirmed nor reverted).
C2_AtMostOneOutstanding == Cardinality(Pending) <= 1

\* C3: after a broadcast failure the nonce counter is re-fetched from chain
\* state before any later submission attempt is assigned a nonce: no attempt
\* holds a nonce taken from a counter that was not re-fetched since the failure.
C3_ResyncBeforeNextNonce ==
    \A c \in Slots : cyc[c].pc = "send" => ~unsynced

\* C4: a fee above the ceiling is a hard stop: the attempt ends as a failure,
\* nothing was signed or broadcast, no nonce was assigned and the nonce counter
\* has the value it had when the submission began.
C4_GasCeilingHardStop ==
    \A c \in Slots :
        cyc[c].gasExceeded =>
            /\ cyc[c].pc = "end"
            /\ cyc[c].result = "failure"
            /\ ~cyc[c].sent
            /\ cyc[c].txi = 0
            /\ cyc[c].txNonce = NullNonce
            /\ nonce = cyc[c].nonceBefore

\* C4 witness: the ceiling stopped a submission when the counter already held
\* a value and an earlier transaction had been broadcast
C4_Witness ==
    \E c \in Slots : cyc[c].gasExceeded /\ nonce # NullNonce /\ Len(txs) > 0

\* C5: an Opportunity is returned only for a path that passed the profitability
\* predicate and whose executeArb call passed the simulation; a plan whose
\* simulation was not run successfully yields no Opportunity.
C5_OnlySimulatedOpportunity ==
    ev.ret.k = "opp" =>
        isProfitable(ev.netProfit) /\ ev.simCalls = 1 /\ ev.simOk

\* every hop of the path produced a quote and a step
AllHopsPriced == Len(ev.swapSteps) = Len(ev.pathHops)
NetProfitOfRun == ev.currentAmount - InitialAmount - GasCostEstimate

\* C6: a fully priced path that fails the profitability predicate yields no
\* Opportunity and no simulation call; a simulation call happens only after all
\* hops were priced and the profitability test passed.
C6_NoSimulationUnlessProfitable ==
    /\ (ev.pc = "done" /\ AllHopsPriced /\ ~isProfitable(NetProfitOfRun)) =>
          (ev.ret.k # "opp" /\ ev.simCalls = 0)
    /\ ev.simCalls > 0 => (AllHopsPriced /\ isProfitable(NetProfitOfRun))

\* C6 witness: a fully priced, unprofitable path with a contract configured
C6_Witness ==
    /\ ev.pc = "done"
    /\ AllHopsPriced
    /\ cfg.contractAddr
    /\ ~isProfitable(NetProfitOfRun)
    /\ ev.ret.k = "null"

Connected(steps) ==
    \A i \in 2..Len(steps) : steps[i].tokenIn = steps[i - 1].tokenOut
Circular(steps, asset) ==
    steps[1].tokenIn = asset /\ steps[Len(steps)].tokenOut = asset

\* C7: the steps of every Opportunity evaluatePath produces are connected and
\* circular: each step's tokenIn is the step before's tokenOut, and the first
\* tokenIn and the last tokenOut are the borrowed asset.
C7_StepsConnectedAndCircular ==
    ev.ret.k = "opp" =>
        Connected(ev.ret.swapSteps) /\ Circular(ev.ret.swapSteps, ev.ret.asset)

\* C8: no transaction is broadcast whose steps violate connectivity,
\* circularity or the bound of 10 steps.
C8_BroadcastStepsWellFormed ==
    \A i \in 1..Len(txs) : txs[i].wellFormed

\* C8 witness: a transaction was broadcast
C8_Witness == Len(txs) > 0 /\ txs[1].wellFormed

\* C9: the amountOutMin of the last step built equals
\* floor(outputAmount * (1 - slippageBuffer)) for every configured buffer.
C9_AmountOutMinIsExactFloor ==
    Len(ev.swapSteps) > 0 =>
        ev.swapSteps[Len(ev.swapSteps)].amountOutMin =
            (ev.currentAmount * (SlipUnit - cfg.slippageBuffer)) \div SlipUnit

\* C10: getBestHopQuote never returns a Quote whose output amount is <= 0.
C10_NoNonPositiveQuoteSelected ==
    ev.lastQuote.k = "num" => ev.lastQuote.amt > 0

\* C10 witness: a Quote was returned although a source answered with an output <= 0
C10_Witness == ev.lastQuote.k = "num" /\ ev.lastNonPositive

\* the requests whose answer is a valid Quote: a numeric output above zero
ValidReplies(h) ==
    {i \in 1..Len(h.replies) : h.replies[i].k = "num" /\ h.replies[i].amt > 0}
\* reply i has the greatest output of the valid ones and is the earliest
\* request with that output
BestAndEarliest(h, i) ==
    \A j \in ValidReplies(h) :
        /\ h.replies[j].amt <= h.replies[i].amt
        /\ h.replies[j].amt = h.replies[i].amt => i <= j

\* C11: whenever at least one valid Quote exists, getBestHopQuote returns a
\* Quote; the Quote returned is a valid one whose output is the maximum over
\* all valid Quotes and, among those tied for the maximum, the one earliest
\* in request order.
C11_MaxQuoteFirstWins ==
    hq.pc = "done" =>
        /\ hq.ret.k = "num" =>
              \E i \in ValidReplies(hq) :
                  hq.ret = hq.replies[i] /\ BestAndEarliest(hq, i)
        /\ ValidReplies(hq) # {} => hq.ret.k = "num"

\* C12: no answer of a single source (rejected, null, unusable output) makes
\* getBestHopQuote fail: the call never ends with a propagated error, the
\* best of the valid Quotes is returned when there is one, and null otherwise.
C12_SourceFailureNeverPropagates ==
    hq.pc = "done" =>
        /\ hq.ret.k # "threw"
        /\ ValidReplies(hq) # {} => hq.ret.k = "num"
        /\ ValidReplies(hq) = {} => hq.ret.k = "null"

\* the venues a hint names
HintedVenues(d) ==
    CASE d = "uniswap" -> {"uniswapV2", "uniswapV3"}
      [] d = "pancakeswap" -> {"pancakeswapV3"}
      [] d \in {"uniswapV2", "uniswapV3", "aerodrome", "pancakeswapV3", "baseswap"} -> {d}
      [] OTHER -> {}
RequestedSet(h) == {h.requested[k] : k \in 1..Len(h.requested)}

\* C13 as claimed: with a hint, requests go only to the hinted source; with
\* no hint one request goes to every configured source.
C13_OnlyHintedSourceAsked ==
    hq.pc = "done" =>
        IF hq.preferredDex = "" THEN hq.requested = AllSources
        ELSE RequestedSet(hq) \subseteq HintedVenues(hq.preferredDex)

\* C13 amended: with a hint, one request goes to each venue the hint names and
\* one to the aggregator, and to no other source; with no hint one request
\* goes to every configured source.
C13_HintedVenuesAndAggregatorAsked ==
    hq.pc = "done" =>
        /\ Len(hq.requested) = Cardinality(RequestedSet(hq))
        /\ IF hq.preferredDex = "" THEN hq.requested = AllSources
           ELSE RequestedSet(hq) = HintedVenues(hq.preferredDex) \cup {"odos"}

\* C13 witness: a hop hinted to one venue asked that venue and the aggregator
C13_Witness ==
    /\ hq.pc = "done"
    /\ hq.preferredDex = "aerodrome"
    /\ hq.requested = <<"aerodrome", "odos">>

\* the second call of evaluatePath on the path has returned
SecondRunDone == hq.run = 2 /\ ev.pc = "done"

\* C17: two evaluations of the same path under identical responses of every
\* source produce the same result, the same SwapSteps and the same netProfit,
\* in whatever order the concurrent responses of each hop arrived.
C17_RepeatedEvaluationIdentical ==
    SecondRunDone =>
        /\ ev.ret = hq.first.ret
        /\ ev.swapSteps = hq.first.swapSteps
        /\ ev.netProfit = hq.first.netProfit

\* C17 witness: both calls returned an Opportunity; the responses of the first
\* call arrived in request order and those of the second did not, and two
\* sources of the first hop tie for the maximum
C17_Witness ==
    /\ SecondRunDone
    /\ ev.ret.k = "opp"
    /\ hq.first.ret.k = "opp"
    /\ hq.first.inOrder
    /\ ~hq.inOrder
    /\ \E i, j \in 1..Len(hq.resp[1]) :
          /\ i # j
          /\ hq.resp[1][i].k = "num" /\ hq.resp[1][j].k = "num"
          /\ hq.resp[1][i].amt = ev.outs[1]
          /\ hq.resp[1][j].amt = ev.outs[1]

\* C14: when hop k gives no Quote or no step (a failed or empty assemble
\* included), evaluatePath ends at once without an Opportunity: hop k was the
\* last one asked for a quote, once; at most one assemble request was made
\* per hop; only the steps before k were built; no simulation ran.
C14_AbortAtFailedHop ==
    /\ ev.failedHop # 0 =>
          /\ ev.pc = "done"
          /\ ev.ret.k \in {"null", "threw"}
          /\ Len(ev.quoteReqs) = ev.failedHop
          /\ Len(ev.swapSteps) = ev.failedHop - 1
          /\ \A k \in 1..Len(ev.swapSteps) : ev.swapSteps[k].k = "step"
          /\ ev.asmReqs <= ev.failedHop
          /\ ev.simCalls = 0
    /\ (ev.pc = "done" /\ ~AllHopsPriced) => ev.failedHop = Len(ev.swapSteps) + 1

\* C14 witness: the assemble call of the second of three hops gave no calldata
C14_Witness ==
    /\ ev.failedHop = 2
    /\ Len(ev.pathHops) = 3
    /\ ev.lastQuote.k = "num"
    /\ ev.lastQuote.src = "odos"
    /\ ev.asmReqs > 0

\* C15: the hops are priced in order: the first quote request uses the
\* borrowed amount, request k+1 is issued only after the Quote of hop k is
\* chosen and uses exactly that Quote's output as its input amount.
C15_HopsChainedInOrder ==
    /\ Len(ev.quoteReqs) <= Len(ev.outs) + 1
    /\ \A k \in 1..Len(ev.quoteReqs) :
          ev.quoteReqs[k].amountIn =
              IF k = 1 THEN InitialAmount ELSE ev.outs[k - 1]

\* C15 witness: three hops were asked and the first two Quotes differ
C15_Witness ==
    /\ Len(ev.quoteReqs) = 3
    /\ ev.outs[1] # ev.outs[2]
    /\ ev.outs[1] # InitialAmount

\* C16: for every fully priced path netProfit is the output of the Quote
\* chosen for the last hop minus the borrowed amount minus the fixed gas
\* allowance, and the Opportunity carries these values.
C16_NetProfitFormula ==
    (ev.pc = "done" /\ AllHopsPriced) =>
        /\ ev.netProfit = ev.outs[Len(ev.outs)] - InitialAmount - GasCostEstimate
        /\ ev.ret.k = "opp" =>
              /\ ev.ret.netProfit = ev.netProfit
              /\ ev.ret.finalAmount = ev.outs[Len(ev.outs)]
              /\ ev.ret.initialAmount = InitialAmount

\* C16 witness: borrowed 10000, last hop 10100 after a different first hop,
\* and an Opportunity with the net profit of 10100 - 10000 - gas
C16_Witness ==
    /\ ev.ret.k = "opp"
    /\ Len(ev.outs) = 2
    /\ ev.outs[1] = AmtLo
    /\ ev.outs[2] = AmtHi
    /\ ev.ret.netProfit = AmtHi - InitialAmount - GasCostEstimate

\* scanAllPaths has returned
ScanReturned == sc.pc \in {"done", "picked"}
Running == {j \in 1..NumPaths : sc.evals[j] = "running"}
Settled(j) == sc.evals[j] \in {"opp", "null", "rejected"}
batchOf(j) == (j - 1) \div BatchSize

\* C18: at most 5 evaluations are in flight; no evaluation of a batch has
\* started while an evaluation of an earlier batch is not settled; a scan
\* that ends without a top-level exception has settled every evaluation and
\* collected every Opportunity, whatever evaluations rejected.
C18_BatchesOfFive ==
    /\ Cardinality(Running) <= BatchSize
    /\ \A j, k \in 1..NumPaths :
          (sc.evals[j] # "idle" /\ batchOf(k) < batchOf(j)) => Settled(k)
    /\ (ScanReturned /\ ~sc.threw) =>
          \A j \in 1..NumPaths :
              /\ Settled(j)
              /\ sc.evals[j] = "opp" =>
                    \E a \in 1..Len(sc.ret.items) : sc.ret.items[a] = j

\* C18 witness: in the first batch one evaluation rejected and another gave
\* an Opportunity, and the last path, in the second batch, gave one too
C18_Witness ==
    /\ sc.pc = "done"
    /\ ~sc.threw
    /\ \E j, k \in 1..BatchSize : sc.evals[j] = "rejected" /\ sc.evals[k] = "opp"
    /\ NumPaths > BatchSize
    /\ sc.evals[NumPaths] = "opp"

\* C19: the result holds exactly the Opportunities of the evaluations that
\* fulfilled with a value, each once and in path order.
C19_ResultIsFulfilledOpportunities ==
    (ScanReturned /\ ~sc.threw) =>
        /\ \A a, b \in 1..Len(sc.ret.items) : a < b => sc.ret.items[a] < sc.ret.items[b]
        /\ {sc.ret.items[a] : a \in 1..Len(sc.ret.items)}
               = {j \in 1..NumPaths : sc.evals[j] = "opp"}

\* C19 witness: a result of two or more Opportunities from a scan with a
\* rejected evaluation, a null one and an empty path
C19_Witness ==
    /\ sc.pc = "done"
    /\ Len(sc.ret.items) >= 2
    /\ \E j, k, l \in 1..NumPaths :
          /\ sc.evals[j] = "rejected"
          /\ sc.evals[k] = "null" /\ sc.shape[k] = "path"
          /\ sc.shape[l] = "empty"

\* C20: a top-level exception inside scanAllPaths is not propagated and the
\* scan returns an empty result.
C20_TopLevelExceptionGivesEmptyResult ==
    sc.threw =>
        /\ ScanReturned
        /\ sc.ret.k = "list"
        /\ sc.ret.items = <<>>

\* C20 witness: the scan amount could not be parsed
C20_Witness == sc.threw /\ sc.pc = "done" /\ sc.scanAmount = "abc"

ResultSet == {sc.ret.items[a] : a \in 1..Len(sc.ret.items)}

\* C21: the Opportunity handed to handleOpportunity has the maximum netProfit
\* of the scan's result set and is the earliest in result order among those
\* with that netProfit; nothing is handed over when the result set is empty.
C21_BestOpportunityPicked ==
    sc.pc = "picked" =>
        IF ResultSet = {} THEN sc.picked = 0
        ELSE /\ sc.picked \in ResultSet
             /\ \A j \in ResultSet :
                   /\ sc.profitOf[j] <= sc.profitOf[sc.picked]
                   /\ sc.profitOf[j] = sc.profitOf[sc.picked] => sc.picked <= j

\* C21 witness: three Opportunities, the first one not the best, the best
\* profit found twice, and the earlier of the two picked
C21_Witness ==
    /\ sc.pc = "picked"
    /\ Len(sc.ret.items) >= 3
    /\ sc.profitOf[sc.ret.items[1]] < sc.profitOf[sc.picked]
    /\ \E j \in ResultSet : j > sc.picked /\ sc.profitOf[j] = sc.profitOf[sc.picked]
\* C22: within one scan cycle at most one broadcast is attempted, and a cycle
\* that reported failure (revert, broadcast failure, gas ceiling, failed
\* confirmation) is over: it makes no further send attempt
SendAttempted(c) == cyc[c].attempts > 0
C22_OneSendAttemptPerCycle ==
    \A c \in Slots :
        /\ cyc[c].attempts <= 1
        /\ cyc[c].result = "failure" => cyc[c].pc = "end"
        /\ cyc[c].pc \in {"populate", "estimate", "fee", "nonce", "fetch", "send"} =>
              ~SendAttempted(c)
C22_Witness ==
    \E c \in Slots :
        /\ cyc[c].pc = "end"
        /\ cyc[c].result = "failure"
        /\ cyc[c].attempts = 1
        /\ cyc[c].txi > 0
        /\ txs[cyc[c].txi].status = "reverted"

\* C23: in event-driven mode a notification that arrives while a cycle is in
\* flight starts nothing (and nothing is kept for later: every scan counted was
\* started by a notification that found no cycle in flight), a notification
\* that arrives when no cycle is in flight starts exactly one scan, and at most
\* one cycle is in flight at any time
C23_SingleFlightNotifications ==
    mode = "flashblocks" =>
        /\ Cardinality(InFlight) <= 1
        /\ scanning <=> InFlight # {}
        /\ notified.inFlight > 0 => notified.outcome = "ignored" /\ notified.started = 0
        /\ (notified.outcome # "none" /\ notified.inFlight = 0) =>
               notified.outcome = "started" /\ notified.started = 1
C23_Witness ==
    /\ mode = "flashblocks"
    /\ scanCount = 2
    /\ notified.outcome = "ignored"
    /\ notified.inFlight = 1
    /\ \E c \in Slots : cyc[c].pc = "scan"

\* the schedulers that can start a scan: registered handlers and live loops
Schedulers == Len(rst.handlers) + rst.loops
CyclesInFlight ==
    Cardinality({h \in 1..Len(rst.handlers) : rst.handlers[h]})
        + (IF rst.loopBusy THEN 1 ELSE 0)

\* C24: an exception that escapes startScanning is logged and followed by the
\* backoff and a new run of main(); once startScanning runs again exactly one
\* scheduler drives scans and at most one scan cycle is in flight
C24_OneSchedulerAfterRestart ==
    /\ rst.restarts = rst.backoffs
    /\ rst.backoffs <= rst.fatalLogged
    /\ (rst.restarts > 0 /\ rst.pc \in {"keepalive", "polling"}) =>
           Schedulers = 1 /\ CyclesInFlight <= 1

\* C25: every request to the quote and the assemble endpoint follows an acquire
\* of its own call that completed; the requests sent never exceed the acquires
\* completed, whatever the interleaving of the calls
C25_RequestsBehindLimiter ==
    /\ od.sent <= od.acquires
    /\ \A k \in 1..MaxCalls :
          /\ od.calls[k].requests <= 1
          /\ od.calls[k].requests = 1 => od.calls[k].acquired
          /\ od.calls[k].pc \in {"post", "response"} => od.calls[k].acquired
C25_Witness ==
    /\ od.sent = 2
    /\ od.acquires = 3
    /\ \E k1, k2 \in 1..MaxCalls :
          /\ od.calls[k1].kind = "quote" /\ od.calls[k1].requests = 1
          /\ od.calls[k2].kind = "assemble" /\ od.calls[k2].requests = 1

\* an executeArb transaction is under way or has ended
ArbExec == arb.call # Null /\ arb.call.kind = "executeArb"
NothingPersists == arb.pc = "reverted" /\ persistent(arb) = arb.pre

\* C26: executeArb reverts, with contract state and balances as before, when
\* some step's router is not whitelisted at the time of the call; no router
\* outside the whitelist is ever approved or called
C26_OnlyWhitelistedRouters ==
    /\ (ArbExec /\ \E i \in 1..Len(arb.call.steps) :
                      arb.call.steps[i].router \notin arb.pre.whitelistedRouters)
          => NothingPersists /\ arb.did.flashLoans = 0
    /\ arb.did.approved \subseteq arb.whitelistedRouters
    /\ arb.did.called \subseteq arb.whitelistedRouters
C26_Witness ==
    /\ ArbExec
    /\ arb.call.caller = "owner"
    /\ arb.reason = "Router not whitelisted"
    /\ arb.pc = "reverted"
    /\ Len(arb.call.steps) = 2
    /\ arb.call.steps[1].router \in arb.whitelistedRouters
    /\ arb.call.steps[2].router \notin arb.whitelistedRouters

\* C27: executeArb reverts, before any flash loan is asked for, unless the
\* step array has 1 to 10 steps, starts and ends with the asset and is
\* connected; a flash loan is asked for well-formed arrays only
C27_OnlyWellFormedSteps ==
    ArbExec =>
       /\ ~StepInvariants(arb.call.asset, arb.call.steps)
             => NothingPersists /\ arb.did.flashLoans = 0
       /\ arb.did.flashLoans > 0 => StepInvariants(arb.call.asset, arb.call.steps)
C27_Witness ==
    /\ ArbExec
    /\ arb.call.caller = "owner"
    /\ arb.reason = "Path not connected"
    /\ arb.pc = "reverted"
    /\ Len(arb.call.steps) = 2
    /\ arb.call.steps[1].tokenIn = arb.call.asset
    /\ arb.call.steps[2].tokenOut = arb.call.asset
    /\ arb.call.steps[2].tokenIn # arb.call.steps[1].tokenOut
    /\ routersWhitelisted(arb.whitelistedRouters, arb.call.steps)

\* C28: no step whose tokenOut balance grew by less than its amountOutMin is
\* followed by anything but the revert of the whole transaction: no later
\* step runs and no change persists
C28_StepMinimumOrRevert ==
    /\ arb.did.shortStep = 0
    /\ arb.reason = "slippage" =>
          /\ NothingPersists
          /\ arb.did.stepsRun = arb.i
          /\ arb.did.stepChecked
C28_Witness ==
    /\ ArbExec
    /\ arb.reason = "slippage"
    /\ arb.pc = "reverted"
    /\ arb.i = 1
    /\ Len(arb.call.steps) = 2
    /\ arb.call.steps[1].tokenIn # arb.call.steps[1].tokenOut
    /\ arb.call.steps[1].amountOutMin > 0

\* C29: executeArb succeeds only with a final balance of the asset of at
\* least amount + premium; the pool then gets exactly amount + premium back
\* and the contract keeps exactly the rest; a final balance below that, and
\* only that, makes the repayment revert the whole transaction
C29_RepayExactlyOrRevert ==
    /\ arb.pc = "done" =>
          /\ arb.did.flashLoans = 1
          /\ arb.did.balanceAtRepay >= arb.call.amount + arb.premium
          /\ arb.poolBal[arb.call.asset]
                = arb.pre.poolBal[arb.call.asset] + arb.premium
          /\ arb.bal[arb.call.asset]
                = arb.did.balanceAtRepay - (arb.call.amount + arb.premium)
    /\ arb.reason \in {"repay", "pull"} =>
          /\ NothingPersists
          /\ arb.did.balanceAtRepay < arb.call.amount + arb.premium
C29_Witness ==
    /\ arb.pc = "done"
    /\ arb.premium > 0
    /\ arb.pre.bal[arb.call.asset] = Retained
    /\ arb.bal[arb.call.asset] > Retained
    /\ Len(arb.call.steps) = 2

\* C30: executeArb called by an account that is not the owner reverts without
\* a flash loan, an approval, a router call or a change of state, whatever
\* the arguments
C30_OwnerOnly ==
    (ArbExec /\ arb.call.caller # "owner") =>
        NothingPersists /\ arb.did = nothingDone
C30_Witness ==
    /\ ArbExec
    /\ arb.call.caller = "other"
    /\ arb.pc = "reverted"
    /\ ~arb.paused
    /\ StepInvariants(arb.call.asset, arb.call.steps)
    /\ routersWhitelisted(arb.whitelistedRouters, arb.call.steps)

SwapEvents == SelectSeq(arb.events, LAMBDA e : e.name = "SwapExecuted")

\* C31: a successful executeArb of n steps has emitted n SwapExecuted events,
\* with stepIndex 0 .. n-1 in that order, and then one ArbExecuted event; a
\* reverted executeArb has emitted none
C31_EventsOfSuccessOnly ==
    /\ arb.pc = "done" =>
          LET n == Len(arb.call.steps) IN
          /\ Len(arb.events) = n + 1
          /\ \A k \in 1..n :
                /\ arb.events[k].name = "SwapExecuted"
                /\ arb.events[k].stepIndex = k - 1
                /\ arb.events[k].tokenIn = arb.call.steps[k].tokenIn
                /\ arb.events[k].tokenOut = arb.call.steps[k].tokenOut
          /\ arb.events[n + 1].name = "ArbExecuted"
    /\ arb.pc = "reverted" => arb.events = <<>>
    /\ arb.pc \in {"step", "repay"} => Len(SwapEvents) = arb.i - 1
C31_Witness ==
    /\ arb.pc = "done"
    /\ Len(arb.call.steps) = MaxSteps
    /\ Len(SwapEvents) = MaxSteps
    /\ arb.events[MaxSteps + 1].name = "ArbExecuted"

ReportedProfit == arb.events[Len(arb.events)].profit

\* C32: the profit in the ArbExecuted event of a successful executeArb is the
\* net change of the contract's balance of the borrowed asset over the call,
\* and the balance held before the call is still there afterwards
C32_ProfitIsNetChange ==
    arb.pc = "done" =>
        /\ arb.bal[arb.call.asset] >= arb.pre.bal[arb.call.asset]
        /\ ReportedProfit = arb.bal[arb.call.asset] - arb.pre.bal[arb.call.asset]

NoArbInProgress == arb.pc \in {"idle", "done", "reverted", "withdrawn"}

\* C39: while no executeArb call is in progress the flash-loan flag is false
\* and the pending steps are empty; executeOperation gets past its checks
\* only when the pool calls it with the contract as initiator during an
\* executeArb, and every other call of it reverts
C39_CallbackOnlyInsideExecuteArb ==
    /\ NoArbInProgress => ~arb.inFlashLoan /\ arb.pendingSteps = <<>>
    /\ ~arb.did.nestedAccepted
    /\ (arb.call # Null /\ arb.call.kind = "foreign") =>
          /\ arb.pc = "reverted"
          /\ arb.reason = "context"
          /\ persistent(arb) = arb.pre
          /\ arb.did.stepsRun = 0
    /\ arb.pc \in {"step", "repay", "done"} =>
          /\ ArbExec
          /\ arb.did.flashLoans = 1
          /\ arb.pc # "done" => arb.inFlashLoan /\ arb.pendingSteps = arb.call.steps
C39_Witness ==
    /\ arb.pc = "done"
    /\ arb.did.foreignTried
    /\ arb.did.stepsRun = Len(arb.call.steps)

\* the cycles that hold a nonce and have not tried to broadcast yet
NonceHeld == {c \in DOMAIN cyc : cyc[c].pc = "send"}

\* C33: every attempt that reaches the nonce assignment takes the current
\* value of the counter and leaves the counter one above it, so consecutive
\* attempts with no failure between them carry consecutive nonces: when the
\* only two cycles started so far both hold a nonce, the nonces are n and
\* n + 1 and the counter is n + 2
C33_ConsecutiveAttemptsConsecutiveNonces ==
    \A c1, c2 \in NonceHeld :
        (c1 # c2 /\ scanCount = 2 /\ cyc[c1].txNonce <= cyc[c2].txNonce) =>
            /\ cyc[c2].txNonce = cyc[c1].txNonce + 1
            /\ nonce = cyc[c2].txNonce + 1

\* C34: no two transactions the process has broadcast carry the same nonce
C34_BroadcastNoncesDistinct ==
    \A i, j \in 1..Len(txs) : i # j => txs[i].nonce # txs[j].nonce

\* C36: a cycle reports success only with a status-1 receipt of the
\* transaction it broadcast; a gas-ceiling rejection, a broadcast failure, a
\* reverted transaction and a confirmation without receipt report failure
C36_SuccessMeansConfirmedReceipt ==
    \A c \in Slots :
        /\ cyc[c].result = "success" =>
              /\ cyc[c].txi \in 1..Len(txs)
              /\ txs[cyc[c].txi].status = "confirmed"
              /\ txs[cyc[c].txi].nonce = cyc[c].txNonce
              /\ cyc[c].sent
              /\ ~cyc[c].gasExceeded
        /\ (/\ cyc[c].pc = "end"
            /\ cyc[c].opp # Null
            /\ \/ cyc[c].gasExceeded
               \/ cyc[c].txi = 0
               \/ txs[cyc[c].txi].status # "confirmed") =>
              cyc[c].result = "failure"
C36_Witness ==
    \E c \in Slots :
        /\ cyc[c].pc = "end"
        /\ cyc[c].result = "success"
        /\ txs[cyc[c].txi].status = "confirmed"
        /\ \E i \in 1..Len(txs) : txs[i].status = "reverted"

\* a step of cycle c inside the scanner or at the entry of handleOpportunity
ScannerStep(c) == cyc[c].pc = "scan" /\ cyc'[c] # cyc[c]

\* C35: the nonce counter changes only at the nonce assignment and in the
\* failure handler of a submission, the guard only when the scheduler starts
\* and ends a cycle; the steps of the scanner change neither
C35_NonceAndGuardFrame ==
    [][
        /\ \A c \in Slots :
              ScannerStep(c) => nonce' = nonce /\ scanning' = scanning
        /\ (nonce' # nonce =>
              \E c \in Slots :
                 /\ cyc[c].pc \in {"nonce", "fetch", "reset"}
                 /\ cyc'[c] # cyc[c])
        /\ (scanning' # scanning =>
              \E c \in Slots :
                 \/ cyc[c].pc = "idle" /\ cyc'[c].pc = "scan" /\ scanning'
                 \/ cyc[c].pc = "end" /\ cyc'[c].pc = "idle" /\ ~scanning')
    ]_vars
C35_Witness ==
    /\ mode = "flashblocks"
    /\ scanning
    /\ nonce = 1
    /\ chainNonce = 0
    /\ \E c \in Slots : cyc[c].pc = "scan" /\ cyc[c].e.pc = "done"

\* C37: in event-driven mode the guard set by a cycle is eventually cleared,
\* however the cycle ends, and the next notification then starts a new scan
C37_GuardEventuallyReleased ==
    /\ scanning ~> ~scanning
    /\ \A k \in 1..(MaxScans - 1) :
          (mode = "flashblocks" /\ scanning /\ scanCount = k) ~> (scanCount = k + 1)
C37_Witness ==
    /\ mode = "flashblocks"
    /\ scanning
    /\ scanCount = 2
    /\ Len(txs) = 1
    /\ txs[1].status = "pending"
    /\ \E c \in Slots : cyc[c].pc = "scan"

\* the outputs of the tiers that answered in the first pass, their maximum,
\* and the first tier that produced the maximum
TierAnswered == {k \in 1..Len(ft.first) : ft.first[k].ok}
TierMax ==
    IF TierAnswered = {} THEN 0
    ELSE CHOOSE m \in {ft.first[k].quote : k \in TierAnswered} :
             \A k \in TierAnswered : ft.first[k].quote <= m
TierFirstMax ==
    CHOOSE k \in TierAnswered :
        /\ ft.first[k].quote = TierMax
        /\ \A j \in TierAnswered : ft.first[j].quote = TierMax => k <= j

\* C38: the fee-tier search returns, when some tier yields a positive
\* output, a Quote with the maximum output over the tiers that answered and
\* the first tier, in iteration order, that produced it; it returns no Quote
\* when every tier fails or yields 0
C38_BestTierReturned ==
    ft.pc = "done" =>
        IF TierMax > 0
        THEN /\ ft.result # Null
             /\ stringToBigInt(ft.result.toTokenAmount) = TierMax
             /\ ft.result.fee = feesOf(ft.venue)[TierFirstMax]
        ELSE ft.result = Null

\* the parts of the search that do not depend on the tiers answering the
\* second pass as they answered the first: no Quote without a positive
\* output, and the attached tier answered the reported output when asked
TierNothingFromNothing == (ft.pc = "done" /\ TierMax = 0) => ft.result = Null
TierAttachedTierAnswered ==
    (ft.pc = "done" /\ ft.result # Null) =>
        LET k == Len(ft.second) IN
        /\ ft.result.fee = feesOf(ft.venue)[k]
        /\ ft.second[k].ok
        /\ ft.second[k].quote = stringToBigInt(ft.result.toTokenAmount)
        /\ stringToBigInt(ft.result.toTokenAmount) = TierMax
TierStable == \A k \in 1..Len(ft.second) : ft.second[k] = ft.first[k]
TierBestWhenStable == TierStable => C38_BestTierReturned

====
